---- MODULE Spec2Model ----
(***************************************************************************)
(* Greptor: background enrichment pipeline.                                *)
(*                                                                         *)
(* The model follows the library entry point (createGreptor, eat, start,   *)
(* stop), the file storage (saveRawContent, readRawContent,                *)
(* getUnprocessedContents, saveProcessedContent) and the processor         *)
(* (queue, workerLoop, processDocument, enqueueUnprocessedDocuments).      *)
(* Every await of the source is a step boundary: the code between two      *)
(* awaits runs to completion and is one step of the model.                 *)
(***************************************************************************)
EXTENDS Naturals, Integers, Sequences, FiniteSets, TLC

(***************************************************************************)
(* Bounds of the model.                                                    *)
(***************************************************************************)
\* largest value of the `workers` option drawn at construction
MaxWorkers == 2
\* eat calls issued in one behaviour
MaxEat == 2
\* eat calls that may be in flight at the same time
MaxInFlightEat == 1
\* eat calls in flight at the same time when the caller does not await one
\* call before issuing the next
MaxRacingEat == 2
\* process crashes (each followed by a new createGreptor on the same files)
MaxCrash == 1
\* stop() calls during one process lifetime
MaxStop == 1
\* characters of a name after its run of letters, in the calls of sanitize
MaxTail == 2
\* fields of a tag schema
MaxSchemaFields == 2

(***************************************************************************)
(* Program constants.                                                      *)
(***************************************************************************)
\* sanitize(args.label, 50, safeId) and sanitize(args.id, 50, "unknown")
LabelMaxLength == 50
\* sanitize(args.source, 20, "unknown")
SourceMaxLength == 20
\* sanitize(args.publisher, 50, "unknown")
PublisherMaxLength == 50

(***************************************************************************)
(* Strings are sequences of one-character strings.                         *)
(***************************************************************************)
LowerLetters == {"a", "b", "c", "d", "k", "m", "n", "o", "s", "u", "w", "x"}
Digits == {"0", "1", "2", "3", "4", "5", "6", "7", "8", "9"}
Whitespace == {" ", "\n"}

\* String.prototype.toLowerCase, one character
toLowerCase(c) ==
    CASE c = "A" -> "a"
      [] c = "B" -> "b"
      [] c = "S" -> "s"
      [] OTHER -> c

\* the character class [a-z0-9]
IsAlnum(c) == c \in LowerLetters \cup Digits

RECURSIVE TrimStart(_)
TrimStart(s) ==
    IF s # <<>> /\ Head(s) \in Whitespace THEN TrimStart(Tail(s)) ELSE s

RECURSIVE TrimEnd(_)
TrimEnd(s) ==
    IF s # <<>> /\ s[Len(s)] \in Whitespace
    THEN TrimEnd(SubSeq(s, 1, Len(s) - 1))
    ELSE s

\* String.prototype.trim
Trim(s) == TrimEnd(TrimStart(s))

RECURSIVE LowerAll(_)
LowerAll(s) ==
    IF s = <<>> THEN <<>> ELSE <<toLowerCase(Head(s))>> \o LowerAll(Tail(s))

\* replace(/[^a-z0-9]+/g, "-"): every run of other characters becomes one hyphen
RECURSIVE ReplaceNonAlnumRuns(_, _)
ReplaceNonAlnumRuns(s, inRun) ==
    IF s = <<>> THEN <<>>
    ELSE IF IsAlnum(Head(s))
         THEN <<Head(s)>> \o ReplaceNonAlnumRuns(Tail(s), FALSE)
         ELSE IF inRun
              THEN ReplaceNonAlnumRuns(Tail(s), TRUE)
              ELSE <<"-">> \o ReplaceNonAlnumRuns(Tail(s), TRUE)

\* replace(/^-+/, "")
RECURSIVE StripLeadingHyphens(_)
StripLeadingHyphens(s) ==
    IF s # <<>> /\ Head(s) = "-" THEN StripLeadingHyphens(Tail(s)) ELSE s

\* replace(/-+$/, "")
RECURSIVE StripTrailingHyphens(_)
StripTrailingHyphens(s) ==
    IF s # <<>> /\ s[Len(s)] = "-"
    THEN StripTrailingHyphens(SubSeq(s, 1, Len(s) - 1))
    ELSE s

\* replace(/-+/g, "-")
RECURSIVE CollapseHyphens(_)
CollapseHyphens(s) ==
    IF Len(s) < 2 THEN s
    ELSE IF s[1] = "-" /\ s[2] = "-"
         THEN CollapseHyphens(Tail(s))
         ELSE <<Head(s)>> \o CollapseHyphens(Tail(s))

\* slice(0, maxLength) when longer than maxLength
Slice(s, maxLength) ==
    IF Len(s) > maxLength THEN SubSeq(s, 1, maxLength) ELSE s

\* sanitize without the substitution of the fallback
sanitizeNoFallback(name, maxLength, fallback) ==
    Slice(CollapseHyphens(StripTrailingHyphens(StripLeadingHyphens(
        ReplaceNonAlnumRuns(LowerAll(Trim(name)), FALSE)))), maxLength)

\* createFileStorage.sanitize
sanitize(name, maxLength, fallback) ==
    LET trimmed == Trim(name)
        replaced == ReplaceNonAlnumRuns(LowerAll(trimmed), FALSE)
        stripped == StripTrailingHyphens(StripLeadingHyphens(replaced))
        collapsed == CollapseHyphens(stripped)
        sanitized == Slice(collapsed, maxLength)
    IN  IF sanitized = <<>> THEN fallback ELSE sanitized

Unknown == <<"u", "n", "k", "n", "o", "w", "n">>

\* an absent optional field of the input
Absent == <<"absent">>

\* A timestamp is a UTC day number; days are numbered within a year of ten-day
\* months, so day 11 is the second day of month 1.  NoDate is an absent Date.
NoDate == 0 - 1

Digit(n) ==
    CASE n = 0 -> "0" [] n = 1 -> "1" [] n = 2 -> "2" [] n = 3 -> "3"
      [] n = 4 -> "4" [] n = 5 -> "5" [] n = 6 -> "6" [] n = 7 -> "7"
      [] n = 8 -> "8" [] OTHER -> "9"

\* effectiveTimestamp.toISOString().split("T")[0]
toISODate(ts) == <<Digit((ts \div 10) % 10), Digit(ts % 10)>>

\* createFileStorage.getYearMonthSegment
getYearMonthSegment(ts) == <<Digit((ts \div 10) % 10)>>

\* a deriver that ignores the label and names the file after the id
generateDocumentRefById(args, now) ==
    <<sanitize(args.source, SourceMaxLength, Unknown),
      getYearMonthSegment(IF args.timestamp = NoDate THEN now ELSE args.timestamp),
      toISODate(IF args.timestamp = NoDate THEN now ELSE args.timestamp)
          \o <<"-">> \o sanitize(args.id, LabelMaxLength, Unknown)
          \o <<".", "m", "d">>>>

\* createFileStorage.generateDocumentRef; `now` is the value of new Date().
\* The reference is the list of its path segments (path.posix.join).
generateDocumentRef(args, now) ==
    LET effectiveTimestamp == IF args.timestamp = NoDate THEN now ELSE args.timestamp
        isoDate == toISODate(effectiveTimestamp)
        safeId == sanitize(IF args.id = Absent THEN <<>> ELSE args.id,
                           LabelMaxLength, Unknown)
        safeTitle == sanitize(args.label, LabelMaxLength, safeId)
        yearMonth == getYearMonthSegment(effectiveTimestamp)
        source == sanitize(args.source, SourceMaxLength, Unknown)
        fileName == isoDate \o <<"-">> \o safeTitle \o <<".", "m", "d">>
    IN  IF args.publisher # Absent /\ args.publisher # <<>>
        THEN <<source, sanitize(args.publisher, PublisherMaxLength, Unknown),
               yearMonth, fileName>>
        ELSE <<source, yearMonth, fileName>>

\* String.prototype.replace(/\.md$/, "")
StripMdSuffix(s) ==
    IF Len(s) >= 3 /\ SubSeq(s, Len(s) - 2, Len(s)) = <<".", "m", "d">>
    THEN SubSeq(s, 1, Len(s) - 3)
    ELSE s

\* a tag value that is not a string (a number, a list, a mapping)
NotAString == <<"object">>

\* processor asNonEmptyString; Absent stands for undefined
asNonEmptyString(value) ==
    IF value \in {Absent, NotAString} THEN Absent
    ELSE IF Trim(value) = <<>> THEN Absent ELSE Trim(value)

NoTags == [title |-> Absent, source |-> Absent, publisher |-> Absent]

\* a variant of resolveDocumentMetadata that always reads the second segment
\* as the publisher
resolveDocumentMetadataSecond(ref, tags) ==
    LET parts == ref
        tagPublisher == asNonEmptyString(tags.publisher)
        tagSource == asNonEmptyString(tags.source)
        tagTitle == asNonEmptyString(tags.title)
    IN  [source |-> IF tagSource # Absent THEN tagSource ELSE parts[1],
         label |-> IF tagTitle # Absent THEN tagTitle
                   ELSE StripMdSuffix(parts[Len(parts)]),
         publisher |-> IF tagPublisher # Absent THEN tagPublisher ELSE parts[2]]

\* processor resolveDocumentMetadata(ref, tags)
resolveDocumentMetadata(ref, tags) ==
    LET parts == ref
        filename == parts[Len(parts)]
        labelFromPath == StripMdSuffix(filename)
        sourceFromPath == parts[1]
        publisherFromPath == IF Len(parts) > 3 THEN parts[2] ELSE Absent
        tagPublisher == asNonEmptyString(tags.publisher)
        tagSource == asNonEmptyString(tags.source)
        tagTitle == asNonEmptyString(tags.title)
    IN  [source |-> IF tagSource # Absent THEN tagSource ELSE sourceFromPath,
         label |-> IF tagTitle # Absent THEN tagTitle ELSE labelFromPath,
         publisher |-> IF tagPublisher # Absent THEN tagPublisher
                       ELSE publisherFromPath]

(***************************************************************************)
(* Inputs of eat drawn by the model.  Labels "a" and "A" derive the same   *)
(* reference with different headers; label "b" derives another one.        *)
(***************************************************************************)
Labels == {<<"a">>, <<"A">>, <<"b">>}

\* the value of new Date() during the run
ClockNow == 11

EatInput(l, f, o) ==
    [content |-> <<" ">> \o l \o <<" ">>, format |-> f, label |-> l, source |-> <<"S">>,
     publisher |-> Absent, id |-> Absent, creationDate |-> 11,
     overwrite |-> o]

EatInputs ==
    {EatInput(l, "text", FALSE) : l \in Labels}
        \cup {EatInput(<<"A">>, "text", TRUE), EatInput(<<"a">>, "pdf", FALSE)}

\* the arguments saveRawContent passes to generateDocumentRef
RefArgs(input) ==
    [id |-> IF input.id = Absent THEN Unknown ELSE input.id,
     label |-> input.label,
     source |-> input.source,
     publisher |-> input.publisher,
     timestamp |-> input.creationDate]

RefOf(input) == generateDocumentRef(RefArgs(input), ClockNow)

AllRefs == {RefOf(i) : i \in EatInputs}

(***************************************************************************)
(* Files.  A file of either layer is absent, truncated (opened for         *)
(* writing by a process that died before the bytes were flushed) or        *)
(* intact.  An intact raw file holds the YAML header (tags) and the body;  *)
(* an intact processed file holds the rendered tags and the model's text.  *)
(***************************************************************************)
NoFile == [exists |-> FALSE, intact |-> FALSE, tags |-> NoTags, body |-> <<>>]

Truncated == [exists |-> TRUE, intact |-> FALSE, tags |-> NoTags, body |-> <<>>]

\* createFileStorage.buildRawFileContent
buildRawFileContent(input) ==
    [exists |-> TRUE, intact |-> TRUE,
     tags |-> [title |-> input.label, source |-> input.source,
               publisher |-> IF input.publisher = <<>> THEN Absent
                             ELSE input.publisher],
     body |-> Trim(input.content)]

\* createFileStorage.readRawContent on the bytes of the file; ioError is a
\* failure of readFile itself.  The content starts with the second of the two line
\* feeds buildRawFileContent puts between the header and the body.
readRawContent(file, ioError) ==
    IF ioError \/ ~file.exists \/ ~file.intact
    THEN [ok |-> FALSE, tags |-> NoTags, content |-> <<>>]
    ELSE [ok |-> TRUE, tags |-> file.tags, content |-> <<"\n">> \o file.body]

NoRaw == [ok |-> FALSE, tags |-> NoTags, content |-> <<>>]

\* the text the model returns for a prompt: the cleaned content it was given
ModelText(prompt) == <<"#">> \o prompt.content

\* processor createProcessingPrompt
createProcessingPrompt(rawContent, customProcessingPrompt) ==
    [template |-> IF customProcessingPrompt # Absent THEN customProcessingPrompt
                  ELSE <<"default">>,
     content |-> rawContent]

\* processor renderProcessedDocument
renderProcessedDocument(tags, chunkContent) ==
    [exists |-> TRUE, intact |-> TRUE, tags |-> tags, body |-> Trim(chunkContent)]

(***************************************************************************)
(* Listing a layer: the directory walk collects the references in the      *)
(* order readdir gives them and sorts them with localeCompare.             *)
(***************************************************************************)
CollationOrder ==
    <<"-", ".", "/", "0", "1", "2", "3", "4", "5", "6", "7", "8", "9",
      "a", "b", "c", "d", "k", "m", "n", "o", "s", "u", "w", "x">>

CharRank(c) == CHOOSE i \in 1..Len(CollationOrder) : CollationOrder[i] = c

RECURSIVE JoinPath(_)
JoinPath(parts) ==
    IF Len(parts) = 1 THEN parts[1]
    ELSE parts[1] \o <<"/">> \o JoinPath(Tail(parts))

RECURSIVE StringLess(_, _)
StringLess(a, b) ==
    IF a = <<>> THEN b # <<>>
    ELSE IF b = <<>> THEN FALSE
    ELSE IF Head(a) = Head(b) THEN StringLess(Tail(a), Tail(b))
    ELSE CharRank(Head(a)) < CharRank(Head(b))

\* a.localeCompare(b) < 0 on two references
localeCompareLess(a, b) == StringLess(JoinPath(a), JoinPath(b))

\* results.sort((a, b) => a.localeCompare(b))
RECURSIVE SortRefs(_)
SortRefs(S) ==
    IF S = {} THEN <<>>
    ELSE LET m == CHOOSE x \in S : \A y \in S \ {x} : localeCompareLess(x, y)
         IN  <<m>> \o SortRefs(S \ {m})

Range(f) == {f[i] : i \in DOMAIN f}

\* createFileStorage.listLayerRefs
listLayerRefs(layer) == SortRefs({r \in DOMAIN layer : layer[r].exists})

\* a variant of getUnprocessedContents without the processed filter
getUnprocessedContentsAllRaw(rawLayer, processedLayer) == listLayerRefs(rawLayer)

\* createFileStorage.getUnprocessedContents
getUnprocessedContents(rawLayer, processedLayer) ==
    LET rawRefs == listLayerRefs(rawLayer)
        processedSet == Range(listLayerRefs(processedLayer))
    IN  SelectSeq(rawRefs, LAMBDA ref : ref \notin processedSet)

(***************************************************************************)
(* The processing queue.                                                   *)
(***************************************************************************)
NoRef == <<>>

\* processor createProcessingQueue
createProcessingQueue == <<>>

\* a variant of enqueue that keeps only the newest entry
enqueueReplace(q, ref) == <<ref>>

\* processor enqueue
enqueue(q, ref) == Append(q, ref)

\* a variant of dequeue that reads the head without removing it (queue[0])
dequeuePeek(q) ==
    IF q = <<>> THEN [item |-> NoRef, rest |-> q]
    ELSE [item |-> Head(q), rest |-> q]

\* a variant of dequeue that takes the newest entry (queue.pop())
dequeuePop(q) ==
    IF q = <<>> THEN [item |-> NoRef, rest |-> q]
    ELSE [item |-> q[Len(q)], rest |-> SubSeq(q, 1, Len(q) - 1)]

\* processor dequeue: queue.shift(); item is NoRef on an empty queue
dequeue(q) ==
    IF q = <<>> THEN [item |-> NoRef, rest |-> q]
    ELSE [item |-> Head(q), rest |-> Tail(q)]

\* processor queueSize
queueSize(q) == Len(q)

RECURSIVE EnqueueAll(_, _)
EnqueueAll(q, refs) ==
    IF refs = <<>> THEN q ELSE EnqueueAll(enqueue(q, Head(refs)), Tail(refs))

(***************************************************************************)
(* State.                                                                  *)
(***************************************************************************)
VARIABLES
    raw,            \* the raw layer: reference -> file
    processed,      \* the processed layer: reference -> file
    gstate,         \* "down" | "reconciling" (createGreptor awaits the storage) | "ready"
    concurrency,    \* Math.max(1, options.workers ?? 1) of the running createGreptor
    queue,          \* the processing queue of the running process
    workerHandle,   \* createGreptor's workerHandle is defined
    stopping,       \* startBackgroundWorkers' stopping flag
    activeWorkers,  \* startBackgroundWorkers' activeWorkers counter
    wk,             \* worker loops: what each awaits, its docRef and its raw
    eats,           \* eat calls in flight: what each awaits, its input and ref,
                    \* and whether no other eat call overlapped it (solo)
    stops,          \* stop() calls awaiting Promise.all(workerPromises)
    last,           \* the step just taken: operation, actor, outcome, notifications
    enqueued,       \* per reference: entries enqueued in this process lifetime
    attempted,      \* per reference: entries a worker has finished with
    modelCalls,     \* per reference: generateText invocations
    failed,
            \* references with an attempt of this lifetime that did not succeed
    eaten,          \* references for which an eat call returned success
    overwritten,    \* references whose raw record an eat call with overwrite
                    \* replaced when a processed record existed, and which no
                    \* worker has read since
    issued,         \* the start() or stop() call issued most recently in this
                    \* process lifetime
    runOpen,        \* the last run notification of this pool of worker loops
                    \* was onProcessingStarted
    eatCount,       \* eat calls issued so far
    stopCount,      \* stop() calls issued in this process lifetime
    crashCount,     \* process crashes so far
    run,            \* lib/processing/processor.ts: the shared run state of the
                    \* workers (runActive, runSuccessCount, runFailureCount,
                    \* runInFlightCount)
    fn              \* the call of a storage function taken on its own: its
                    \* name, its arguments and what it returned

vars ==
    <<raw, processed, gstate, concurrency, queue, workerHandle, stopping,
      activeWorkers, wk, eats, stops, last, enqueued, attempted, modelCalls,
      failed, eaten, overwritten, issued, runOpen, eatCount, stopCount,
      crashCount, run, fn>>

diskVars == <<raw, processed>>
poolVars == <<workerHandle, stopping, activeWorkers, wk, stops>>
countVars == <<eatCount, stopCount, crashCount>>
ghostVars == <<enqueued, attempted, modelCalls, failed, eaten, overwritten, issued, runOpen>>

Workers == 1..MaxWorkers
EatSlots == 1..MaxRacingEat

\* the calls in flight of a caller that awaits each eat
AwaitedSlots == 1..MaxInFlightEat

NoWorker == [pc |-> "none", ref |-> NoRef, raw |-> NoRaw]
NoEat ==
    [pc |-> "idle", input |-> EatInput(<<>>, "text", FALSE), ref |-> NoRef,
     solo |-> TRUE]
NoDoc == [source |-> Absent, label |-> Absent, publisher |-> Absent]
ZeroCount == [r \in AllRefs |-> 0]

\* a notification handed to a hook
Event(hook, doc, success, error) ==
    [hook |-> hook, doc |-> doc, success |-> success, error |-> error]

Last(op, w, ref, res, events) ==
    [op |-> op, w |-> w, ref |-> ref, res |-> res, events |-> events]

\* the outcomes of a storage or model call the worker awaits
getDocumentCountsOutcomes == {"ok", "error"}
readFileOutcomes == {"ok", "error"}
generateTextOutcomes == {"text", "empty", "raise"}
writeFileOutcomes == {"ok", "error"}

\* a variant of Max that lets the second argument through
MaxUnclamped(a, b) == b

\* Math.max
Max(a, b) == IF a > b THEN a ELSE b

\* startBackgroundWorkers of lib/processing/processor.ts: the run state;
\* `dequeued` is a history field, the number of references taken off the
\* queue since startRun was last called
NoRun ==
    [runActive |-> FALSE, runSuccessCount |-> 0, runFailureCount |-> 0,
     runInFlightCount |-> 0, dequeued |-> 0]

NoCall == [op |-> "none", arg |-> <<>>, out |-> <<>>]

\* nothing is constructed, no file exists
Blank ==
    /\ raw = [r \in AllRefs |-> NoFile]
    /\ processed = [r \in AllRefs |-> NoFile]
    /\ gstate = "down"
    /\ concurrency = 1
    /\ queue = <<>>
    /\ workerHandle = FALSE
    /\ stopping = FALSE
    /\ activeWorkers = 0
    /\ wk = [w \in Workers |-> NoWorker]
    /\ eats = [c \in EatSlots |-> NoEat]
    /\ stops = 0
    /\ last = Last("init", 0, NoRef, "", <<>>)
    /\ enqueued = ZeroCount
    /\ attempted = ZeroCount
    /\ modelCalls = ZeroCount
    /\ failed = {}
    /\ eaten = {}
    /\ overwritten = {}
    /\ issued = "none"
    /\ runOpen = FALSE
    /\ eatCount = 0
    /\ stopCount = 0
    /\ crashCount = 0
    /\ run = NoRun

Init == Blank /\ fn = NoCall

(***************************************************************************)
(* createGreptor: the queue is created, then the unprocessed references    *)
(* are awaited from the storage and enqueued, then the instance is         *)
(* returned to the caller.                                                 *)
(***************************************************************************)
createGreptor ==
    /\ gstate = "down"
    /\ \E n \in 0..MaxWorkers : concurrency' = Max(1, n)
    /\ queue' = createProcessingQueue
    /\ gstate' = "reconciling"
    /\ last' = Last("createGreptor", 0, NoRef, "", <<>>)
    /\ UNCHANGED <<diskVars, poolVars, eats, enqueued, attempted, modelCalls,
                   countVars, failed, eaten, overwritten, issued, runOpen>>
    /\ UNCHANGED <<run, fn>>

\* a variant of enqueueUnprocessedDocuments that enqueues nothing
enqueueUnprocessedDocumentsSkipped ==
    /\ gstate = "reconciling"
    /\ gstate' = "ready"
    /\ last' = Last("enqueueUnprocessedDocuments", 0, NoRef, "", <<>>)
    /\ UNCHANGED <<diskVars, concurrency, queue, poolVars, eats, ghostVars,
                   countVars>>
    /\ UNCHANGED <<run, fn>>

\* processor enqueueUnprocessedDocuments, awaited by createGreptor
enqueueUnprocessedDocuments ==
    /\ gstate = "reconciling"
    /\ LET refs == getUnprocessedContents(raw, processed)
       IN  /\ queue' = EnqueueAll(queue, refs)
           /\ enqueued' = [r \in AllRefs |->
                   enqueued[r] + Cardinality({i \in DOMAIN refs : refs[i] = r})]
           /\ last' = Last("enqueueUnprocessedDocuments", 0, NoRef, "", refs)
    /\ gstate' = "ready"
    /\ UNCHANGED <<diskVars, concurrency, poolVars, eats, attempted, modelCalls,
                   countVars, failed, eaten, overwritten, issued, runOpen>>
    /\ UNCHANGED <<run, fn>>

(***************************************************************************)
(* The worker loop of startBackgroundWorkers.  wk[w].pc names the promise  *)
(* worker w awaits: "sleep", "countsRun" (getDocumentCounts before         *)
(* onProcessingStarted), "read" (readRawContent), "countsDoc"              *)
(* (getDocumentCounts before onDocumentProcessingStarted), "model"         *)
(* (generateText), "write" (saveProcessedContent), "countsDone"            *)
(* (getDocumentCounts before the success notification), "countsEnd"        *)
(* (getDocumentCounts before onProcessingCompleted); "exited" is a loop    *)
(* that returned, "crashed" a loop whose promise rejected.                 *)
(***************************************************************************)
\* workerLoop from the while test to its first await
LoopTop(q, active, stop) ==
    IF stop
    THEN [pc |-> "exited", ref |-> NoRef, queue |-> q, active |-> active]
    ELSE LET d == dequeue(q)
         IN  IF d.item = NoRef
             THEN [pc |-> "sleep", ref |-> NoRef, queue |-> d.rest,
                   active |-> active]
             ELSE [pc |-> IF active = 0 THEN "countsRun" ELSE "read",
                   ref |-> d.item, queue |-> d.rest, active |-> active + 1]

\* workerLoop after the try/catch of one document: activeWorkers--, then the
\* await before onProcessingCompleted or the next turn of the loop
AfterDocument(q, active, stop) ==
    IF active - 1 = 0 /\ queueSize(q) = 0
    THEN [pc |-> "countsEnd", ref |-> NoRef, queue |-> q, active |-> active - 1]
    ELSE LoopTop(q, active - 1, stop)

\* the for loop of startBackgroundWorkers: each workerLoop() call runs to its
\* first await before the next one starts
RECURSIVE SpawnWorkers(_, _, _)
SpawnWorkers(i, n, acc) ==
    IF i > n THEN acc
    ELSE LET t == LoopTop(acc.queue, acc.active, FALSE)
         IN  SpawnWorkers(i + 1, n,
                 [queue |-> t.queue, active |-> t.active,
                  wk |-> [acc.wk EXCEPT ![i] =
                             [pc |-> t.pc, ref |-> t.ref, raw |-> NoRaw]]])

\* processor startBackgroundWorkers
startBackgroundWorkers(q, n) ==
    SpawnWorkers(1, n,
                 [queue |-> q, active |-> 0, wk |-> [w \in Workers |-> NoWorker]])

\* a variant of start that is callable while createGreptor still awaits
startEarly ==
    /\ gstate \in {"reconciling", "ready"}
    /\ ~workerHandle
    /\ LET h == startBackgroundWorkers(queue, concurrency)
       IN  /\ workerHandle' = TRUE
           /\ stopping' = FALSE
           /\ activeWorkers' = h.active
           /\ wk' = h.wk
           /\ queue' = h.queue
           /\ last' = Last("start", 0, NoRef, "started", <<>>)
    /\ UNCHANGED <<diskVars, gstate, concurrency, eats, stops, enqueued,
                   attempted, modelCalls, failed, eaten, overwritten, countVars>>
    /\ issued' = "start"
    /\ runOpen' = FALSE
    /\ UNCHANGED <<run, fn>>

\* createGreptor.start
start ==
    /\ gstate = "ready"
    /\ IF workerHandle
       THEN /\ last' = Last("start", 0, NoRef, "already", <<>>)
            /\ UNCHANGED <<queue, workerHandle, stopping, activeWorkers, wk>>
       ELSE LET h == startBackgroundWorkers(queue, concurrency)
            IN  /\ workerHandle' = TRUE
                /\ stopping' = FALSE
                /\ activeWorkers' = h.active
                /\ wk' = h.wk
                /\ queue' = h.queue
                /\ last' = Last("start", 0, NoRef, "started", <<>>)
    /\ UNCHANGED <<diskVars, gstate, concurrency, eats, stops, enqueued,
                   attempted, modelCalls, countVars, failed, eaten, overwritten>>
    /\ issued' = "start"
    /\ runOpen' = (workerHandle /\ runOpen)
    /\ UNCHANGED <<run, fn>>

\* createGreptor.stop up to its await: workerHandle.stop() sets stopping
stop ==
    /\ gstate = "ready"
    /\ stopCount < MaxStop
    /\ stopCount' = stopCount + 1
    /\ IF workerHandle
       THEN /\ stopping' = TRUE
            /\ stops' = stops + 1
            /\ last' = Last("stop", 0, NoRef, "signalled", <<>>)
       ELSE /\ last' = Last("stop", 0, NoRef, "notrunning", <<>>)
            /\ UNCHANGED <<stopping, stops>>
    /\ UNCHANGED <<diskVars, gstate, concurrency, queue, workerHandle,
                   activeWorkers, wk, eats, enqueued, attempted, modelCalls,
                   eatCount, crashCount, failed, eaten, overwritten>>
    /\ issued' = "stop"
    /\ UNCHANGED runOpen
    /\ UNCHANGED <<run, fn>>

Spawned == {w \in Workers : wk[w].pc # "none"}

\* a variant of stopReturn that also discards what is left in the queue
stopReturnDrain ==
    /\ stops > 0
    /\ \A w \in Spawned : wk[w].pc = "exited"
    /\ workerHandle' = FALSE
    /\ queue' = <<>>
    /\ stops' = stops - 1
    /\ last' = Last("stopReturn", 0, NoRef, "stopped", <<>>)
    /\ UNCHANGED <<diskVars, gstate, concurrency, stopping, activeWorkers,
                   wk, eats, enqueued, attempted, modelCalls, countVars,
                   failed, eaten, overwritten, issued>>
    /\ runOpen' = FALSE
    /\ UNCHANGED <<run, fn>>

\* Promise.all(workerPromises) resolved: stop() clears workerHandle and returns
stopReturn ==
    /\ stops > 0
    /\ \A w \in Spawned : wk[w].pc = "exited"
    /\ workerHandle' = FALSE
    /\ stops' = stops - 1
    /\ last' = Last("stopReturn", 0, NoRef, "stopped", <<>>)
    /\ UNCHANGED <<diskVars, gstate, concurrency, queue, stopping, activeWorkers,
                   wk, eats, enqueued, attempted, modelCalls, countVars,
                   failed, eaten, overwritten, issued>>
    /\ runOpen' = FALSE
    /\ UNCHANGED <<run, fn>>

\* Promise.all(workerPromises) rejected: stop() throws, workerHandle stays
stopThrow ==
    /\ stops > 0
    /\ \E w \in Spawned : wk[w].pc = "crashed"
    /\ stops' = stops - 1
    /\ last' = Last("stopThrow", 0, NoRef, "rejected", <<>>)
    /\ UNCHANGED <<diskVars, gstate, concurrency, queue, workerHandle, stopping,
                   activeWorkers, wk, eats, enqueued, attempted, modelCalls,
                   countVars, failed, eaten, overwritten, issued, runOpen>>
    /\ UNCHANGED <<run, fn>>

\* the worker's frame: only worker w, the queue and activeWorkers change
Continue(w, t) ==
    /\ wk' = [wk EXCEPT ![w] = [pc |-> t.pc, ref |-> t.ref, raw |-> NoRaw]]
    /\ queue' = t.queue
    /\ activeWorkers' = t.active

\* a variant of FinishDocument whose catch block puts the docRef back
FinishDocumentRetry(w, ok) ==
    /\ Continue(w, AfterDocument(IF ok THEN queue ELSE enqueue(queue, wk[w].ref),
                                 activeWorkers, stopping))
    /\ attempted' = [attempted EXCEPT ![wk[w].ref] = @ + 1]
    /\ failed' = IF ok THEN failed ELSE failed \cup {wk[w].ref}

\* worker w is done with its docRef: the success path (ok) or the catch block ran
FinishDocument(w, ok) ==
    /\ Continue(w, AfterDocument(queue, activeWorkers, stopping))
    /\ attempted' = [attempted EXCEPT ![wk[w].ref] = @ + 1]
    /\ failed' = IF ok THEN failed ELSE failed \cup {wk[w].ref}

\* the rejected promise of workerLoop: the loop is gone with what it held
Reject(w) ==
    /\ wk' = [wk EXCEPT ![w] = [pc |-> "crashed", ref |-> NoRef, raw |-> NoRaw]]
    /\ IF wk[w].ref # NoRef
       THEN /\ attempted' = [attempted EXCEPT ![wk[w].ref] = @ + 1]
            /\ failed' = failed \cup {wk[w].ref}
       ELSE UNCHANGED <<attempted, failed>>
    /\ UNCHANGED <<queue, activeWorkers>>

DocEvent(hook, w, success, error) ==
    Event(hook, resolveDocumentMetadata(wk[w].ref, wk[w].raw.tags), success, error)

\* sleep(idleSleepMs) resolved
workerSleep(w) ==
    /\ wk[w].pc = "sleep"
    /\ Continue(w, LoopTop(queue, activeWorkers, stopping))
    /\ last' = Last("sleep", w, wk[w].ref, "", <<>>)
    /\ UNCHANGED <<diskVars, gstate, concurrency, workerHandle, stopping, eats,
                   stops, enqueued, attempted, modelCalls, countVars, failed,
                   eaten, overwritten, issued, runOpen>>
    /\ UNCHANGED <<run, fn>>

\* getDocumentCounts before onProcessingStarted settled
workerCountsRun(w) ==
    /\ wk[w].pc = "countsRun"
    /\ \E res \in getDocumentCountsOutcomes :
          IF res = "ok"
          THEN /\ runOpen' = TRUE
               /\ wk' = [wk EXCEPT ![w].pc = "read"]
               /\ last' = Last("countsRun", w, wk[w].ref, res,
                               <<Event("onProcessingStarted", NoDoc, TRUE, "")>>)
               /\ UNCHANGED <<queue, activeWorkers, attempted, failed>>
          ELSE /\ UNCHANGED runOpen
               /\ Reject(w)
               /\ last' = Last("countsRun", w, wk[w].ref, res, <<>>)
    /\ UNCHANGED <<diskVars, gstate, concurrency, workerHandle, stopping, eats,
                   stops, enqueued, modelCalls, countVars, eaten, overwritten,
                   issued>>
    /\ UNCHANGED <<run, fn>>

\* readRawContent settled; its error is kept in readError
workerRead(w) ==
    /\ wk[w].pc = "read"
    /\ \E res \in readFileOutcomes :
          LET r == readRawContent(raw[wk[w].ref], res = "error")
          IN  /\ wk' = [wk EXCEPT ![w].pc = "countsDoc", ![w].raw = r]
              /\ last' = Last("read", w, wk[w].ref, IF r.ok THEN "ok" ELSE "error", <<>>)
    /\ UNCHANGED <<diskVars, gstate, concurrency, queue, workerHandle, stopping,
                   activeWorkers, eats, stops, enqueued, attempted, modelCalls,
                   countVars, failed, eaten, issued, runOpen>>
    /\ overwritten' = overwritten \ {wk[w].ref}
    /\ UNCHANGED <<run, fn>>

\* a variant of workerCountsDoc whose try block does not rethrow readError
workerCountsDocNoRethrow(w) ==
    /\ wk[w].pc = "countsDoc"
    /\ \E res \in getDocumentCountsOutcomes :
          IF res = "error"
          THEN /\ Reject(w)
               /\ last' = Last("countsDoc", w, wk[w].ref, res, <<>>)
               /\ UNCHANGED modelCalls
          ELSE /\ wk' = [wk EXCEPT ![w].pc = "model"]
               /\ modelCalls' = [modelCalls EXCEPT ![wk[w].ref] = @ + 1]
               /\ last' = Last("countsDoc", w, wk[w].ref, res,
                      <<DocEvent("onDocumentProcessingStarted", w, TRUE, "")>>)
               /\ UNCHANGED <<queue, activeWorkers, attempted, failed>>
    /\ UNCHANGED <<diskVars, gstate, concurrency, workerHandle, stopping, eats,
                   stops, enqueued, countVars, eaten, overwritten, issued, runOpen>>
    /\ UNCHANGED <<run, fn>>

\* getDocumentCounts before onDocumentProcessingStarted settled; then the try
\* block rethrows readError or processDocument calls generateText
workerCountsDoc(w) ==
    /\ wk[w].pc = "countsDoc"
    /\ \E res \in getDocumentCountsOutcomes :
          IF res = "error"
          THEN /\ Reject(w)
               /\ last' = Last("countsDoc", w, wk[w].ref, res, <<>>)
               /\ UNCHANGED modelCalls
          ELSE IF ~wk[w].raw.ok
          THEN /\ FinishDocument(w, FALSE)
               /\ last' = Last("countsDoc", w, wk[w].ref, "readError",
                      <<DocEvent("onDocumentProcessingStarted", w, TRUE, ""),
                        DocEvent("onDocumentProcessingCompleted", w, FALSE, "read")>>)
               /\ UNCHANGED modelCalls
          ELSE /\ wk' = [wk EXCEPT ![w].pc = "model"]
               /\ modelCalls' = [modelCalls EXCEPT ![wk[w].ref] = @ + 1]
               /\ last' = Last("countsDoc", w, wk[w].ref, res,
                      <<DocEvent("onDocumentProcessingStarted", w, TRUE, "")>>)
               /\ UNCHANGED <<queue, activeWorkers, attempted, failed>>
    /\ UNCHANGED <<diskVars, gstate, concurrency, workerHandle, stopping, eats,
                   stops, enqueued, countVars, eaten, overwritten, issued, runOpen>>
    /\ UNCHANGED <<run, fn>>

\* a variant of workerModel without the catch block around processDocument
workerModelUncaught(w) ==
    /\ wk[w].pc = "model"
    /\ \E res \in generateTextOutcomes :
          IF res = "text"
          THEN /\ wk' = [wk EXCEPT ![w].pc = "write"]
               /\ last' = Last("model", w, wk[w].ref, res, <<>>)
               /\ UNCHANGED <<queue, activeWorkers, attempted, failed>>
          ELSE /\ Reject(w)
               /\ last' = Last("model", w, wk[w].ref, res, <<>>)
    /\ UNCHANGED <<diskVars, gstate, concurrency, workerHandle, stopping, eats,
                   stops, enqueued, modelCalls, countVars, eaten, overwritten,
                   issued, runOpen>>
    /\ UNCHANGED <<run, fn>>

\* a variant of workerModel without the test of the model's text
workerModelAnyText(w) ==
    /\ wk[w].pc = "model"
    /\ \E res \in generateTextOutcomes :
          IF res \in {"text", "empty"}
          THEN /\ wk' = [wk EXCEPT ![w].pc = "write"]
               /\ last' = Last("model", w, wk[w].ref, res, <<>>)
               /\ UNCHANGED <<queue, activeWorkers, attempted, failed>>
          ELSE /\ FinishDocument(w, FALSE)
               /\ last' = Last("model", w, wk[w].ref, res,
                      <<DocEvent("onDocumentProcessingCompleted", w, FALSE, res)>>)
    /\ UNCHANGED <<diskVars, gstate, concurrency, workerHandle, stopping, eats,
                   stops, enqueued, modelCalls, countVars, eaten, overwritten,
                   issued, runOpen>>
    /\ UNCHANGED <<run, fn>>

\* generateText settled
workerModel(w) ==
    /\ wk[w].pc = "model"
    /\ \E res \in generateTextOutcomes :
          IF res = "text"
          THEN /\ wk' = [wk EXCEPT ![w].pc = "write"]
               /\ last' = Last("model", w, wk[w].ref, res, <<>>)
               /\ UNCHANGED <<queue, activeWorkers, attempted, failed>>
          ELSE /\ FinishDocument(w, FALSE)
               /\ last' = Last("model", w, wk[w].ref, res,
                      <<DocEvent("onDocumentProcessingCompleted", w, FALSE, res)>>)
    /\ UNCHANGED <<diskVars, gstate, concurrency, workerHandle, stopping, eats,
                   stops, enqueued, modelCalls, countVars, eaten, overwritten,
                   issued, runOpen>>
    /\ UNCHANGED <<run, fn>>

\* what processDocument renders for the raw record the worker read
Rendered(w) ==
    renderProcessedDocument(wk[w].raw.tags,
        ModelText(createProcessingPrompt(wk[w].raw.content, Absent)))

\* a variant of workerWrite that appends to an existing processed file
workerWriteAppend(w) ==
    /\ wk[w].pc = "write"
    /\ \E res \in writeFileOutcomes :
          IF res = "ok"
          THEN /\ processed' = [processed EXCEPT ![wk[w].ref] =
                      [Rendered(w) EXCEPT !.body = processed[wk[w].ref].body \o @]]
               /\ wk' = [wk EXCEPT ![w].pc = "countsDone"]
               /\ last' = Last("write", w, wk[w].ref, res, <<>>)
               /\ UNCHANGED <<queue, activeWorkers, attempted, failed>>
          ELSE /\ FinishDocument(w, FALSE)
               /\ last' = Last("write", w, wk[w].ref, res,
                      <<DocEvent("onDocumentProcessingCompleted", w, FALSE, "write")>>)
               /\ UNCHANGED processed
    /\ UNCHANGED <<raw, gstate, concurrency, workerHandle, stopping, eats, stops,
                   enqueued, modelCalls, countVars, failed, eaten, overwritten,
                   issued, runOpen>>
    /\ UNCHANGED <<run, fn>>

\* saveProcessedContent settled
workerWrite(w) ==
    /\ wk[w].pc = "write"
    /\ \E res \in writeFileOutcomes :
          IF res = "ok"
          THEN /\ processed' = [processed EXCEPT ![wk[w].ref] = Rendered(w)]
               /\ wk' = [wk EXCEPT ![w].pc = "countsDone"]
               /\ last' = Last("write", w, wk[w].ref, res, <<>>)
               /\ UNCHANGED <<queue, activeWorkers, attempted, failed>>
          ELSE /\ FinishDocument(w, FALSE)
               /\ last' = Last("write", w, wk[w].ref, res,
                      <<DocEvent("onDocumentProcessingCompleted", w, FALSE, "write")>>)
               /\ UNCHANGED processed
    /\ UNCHANGED <<raw, gstate, concurrency, workerHandle, stopping, eats, stops,
                   enqueued, modelCalls, countVars, eaten, overwritten, issued,
                   runOpen>>
    /\ UNCHANGED <<run, fn>>

\* getDocumentCounts before the success notification settled (inside the try)
workerCountsDone(w) ==
    /\ wk[w].pc = "countsDone"
    /\ \E res \in getDocumentCountsOutcomes :
          /\ FinishDocument(w, res = "ok")
          /\ last' = Last("countsDone", w, wk[w].ref, res,
                 <<DocEvent("onDocumentProcessingCompleted", w, res = "ok",
                            IF res = "ok" THEN "" ELSE "counts")>>)
    /\ UNCHANGED <<diskVars, gstate, concurrency, workerHandle, stopping, eats,
                   stops, enqueued, modelCalls, countVars, eaten, overwritten,
                   issued, runOpen>>
    /\ UNCHANGED <<run, fn>>

\* getDocumentCounts before onProcessingCompleted settled
workerCountsEnd(w) ==
    /\ wk[w].pc = "countsEnd"
    /\ \E res \in getDocumentCountsOutcomes :
          IF res = "ok"
          THEN /\ runOpen' = FALSE
               /\ Continue(w, LoopTop(queue, activeWorkers, stopping))
               /\ last' = Last("countsEnd", w, wk[w].ref, res,
                               <<Event("onProcessingCompleted", NoDoc, TRUE, "")>>)
               /\ UNCHANGED <<attempted, failed>>
          ELSE /\ UNCHANGED runOpen
               /\ Reject(w)
               /\ last' = Last("countsEnd", w, wk[w].ref, res, <<>>)
    /\ UNCHANGED <<diskVars, gstate, concurrency, workerHandle, stopping, eats,
                   stops, enqueued, modelCalls, countVars, eaten, overwritten,
                   issued>>
    /\ UNCHANGED <<run, fn>>

(***************************************************************************)
(* eat.  eats[c].pc names the promise call c awaits: "exists"              *)
(* (fileExists), "mkdir", "write" (writeFile), "added" (saveRawContent     *)
(* returned added; eat resumes to enqueue and return).                     *)
(***************************************************************************)
EatDone(c) == eats' = [eats EXCEPT ![c] = NoEat]

\* a variant of eatCall without the format check
eatCallAnyFormat(c, input) ==
    /\ gstate = "ready"
    /\ eatCount < MaxEat
    /\ eats[c].pc = "idle"
    /\ \A d \in EatSlots : d < c => eats[d].pc # "idle"
    /\ eatCount' = eatCount + 1
    /\ eats' = [eats EXCEPT ![c] =
                   [pc |-> "exists", input |-> input, ref |-> RefOf(input),
                    solo |-> \A e \in EatSlots : eats[e].pc = "idle"]]
    /\ last' = Last("eatCall", c, RefOf(input), "", <<>>)
    /\ UNCHANGED <<diskVars, gstate, concurrency, queue, poolVars, ghostVars,
                   stopCount, crashCount>>
    /\ UNCHANGED <<run, fn>>

\* createGreptor.eat up to its first await: the format check, then
\* saveRawContent builds the content and the reference and awaits fileExists
eatCall(c, input) ==
    /\ gstate = "ready"
    /\ eatCount < MaxEat
    /\ eats[c].pc = "idle"
    /\ \A d \in EatSlots : d < c => eats[d].pc # "idle"
    /\ eatCount' = eatCount + 1
    /\ IF input.format # "text"
       THEN /\ last' = Last("eat", c, NoRef, "unsupported", <<>>)
            /\ UNCHANGED eats
       ELSE /\ eats' = [d \in EatSlots |->
                   IF d = c
                   THEN [pc |-> "exists", input |-> input, ref |-> RefOf(input),
                         solo |-> \A e \in EatSlots : eats[e].pc = "idle"]
                   ELSE IF eats[d].pc = "idle" THEN eats[d]
                   ELSE [eats[d] EXCEPT !.solo = FALSE]]
            /\ last' = Last("eatCall", c, RefOf(input), "", <<>>)
    /\ UNCHANGED <<diskVars, gstate, concurrency, queue, poolVars, enqueued,
                   attempted, modelCalls, stopCount, crashCount, failed, eaten,
                   overwritten, issued, runOpen>>
    /\ UNCHANGED <<run, fn>>

\* a variant of eatExists that never looks at the existing file
eatExistsUnchecked(c) ==
    /\ eats[c].pc = "exists"
    /\ eats' = [eats EXCEPT ![c].pc = "mkdir"]
    /\ last' = Last("eatExists", c, eats[c].ref, "new", <<>>)
    /\ UNCHANGED <<diskVars, gstate, concurrency, queue, poolVars, ghostVars,
                   countVars>>
    /\ UNCHANGED <<run, fn>>

\* a variant of eatExists that ignores the overwrite flag
eatExistsNoOverwrite(c) ==
    /\ eats[c].pc = "exists"
    /\ IF raw[eats[c].ref].exists
       THEN /\ EatDone(c)
            /\ last' = Last("eat", c, eats[c].ref, "duplicate", <<>>)
       ELSE /\ eats' = [eats EXCEPT ![c].pc = "mkdir"]
            /\ last' = Last("eatExists", c, eats[c].ref, "new", <<>>)
    /\ UNCHANGED <<diskVars, gstate, concurrency, queue, poolVars, ghostVars,
                   countVars>>
    /\ UNCHANGED <<run, fn>>

\* saveRawContent: fileExists settled
eatExists(c) ==
    /\ eats[c].pc = "exists"
    /\ IF raw[eats[c].ref].exists
       THEN IF ~eats[c].input.overwrite
            THEN /\ EatDone(c)
                 /\ last' = Last("eat", c, eats[c].ref, "duplicate", <<>>)
            ELSE /\ eats' = [eats EXCEPT ![c].pc = "write"]
                 /\ last' = Last("eatExists", c, eats[c].ref, "overwrite", <<>>)
       ELSE /\ eats' = [eats EXCEPT ![c].pc = "mkdir"]
            /\ last' = Last("eatExists", c, eats[c].ref, "new", <<>>)
    /\ UNCHANGED <<diskVars, gstate, concurrency, queue, poolVars, enqueued,
                   attempted, modelCalls, countVars, failed, eaten,
                   overwritten, issued, runOpen>>
    /\ UNCHANGED <<run, fn>>

\* saveRawContent: mkdir settled
eatMkdir(c) ==
    /\ eats[c].pc = "mkdir"
    /\ \E res \in writeFileOutcomes :
          IF res = "ok"
          THEN /\ eats' = [eats EXCEPT ![c].pc = "write"]
               /\ last' = Last("eatMkdir", c, eats[c].ref, res, <<>>)
          ELSE /\ EatDone(c)
               /\ last' = Last("eat", c, eats[c].ref, "error", <<>>)
    /\ UNCHANGED <<diskVars, gstate, concurrency, queue, poolVars, enqueued,
                   attempted, modelCalls, countVars, failed, eaten,
                   overwritten, issued, runOpen>>
    /\ UNCHANGED <<run, fn>>

\* saveRawContent: writeFile settled
eatWrite(c) ==
    /\ eats[c].pc = "write"
    /\ \E res \in writeFileOutcomes :
          IF res = "ok"
          THEN /\ raw' = [raw EXCEPT ![eats[c].ref] =
                             buildRawFileContent(eats[c].input)]
               /\ eats' = [eats EXCEPT ![c].pc = "added"]
               /\ last' = Last("eatWrite", c, eats[c].ref, res, <<>>)
          ELSE /\ EatDone(c)
               /\ last' = Last("eat", c, eats[c].ref, "error", <<>>)
               /\ UNCHANGED raw
    /\ UNCHANGED <<processed, gstate, concurrency, queue, poolVars, enqueued,
                   attempted, modelCalls, countVars, failed, eaten,
                   overwritten, issued, runOpen>>
    /\ UNCHANGED <<run, fn>>

\* createGreptor.eat after saveRawContent returned added
eatReturn(c) ==
    /\ eats[c].pc = "added"
    /\ queue' = enqueue(queue, eats[c].ref)
    /\ enqueued' = [enqueued EXCEPT ![eats[c].ref] = @ + 1]
    /\ eaten' = eaten \cup {eats[c].ref}
    /\ overwritten' = IF eats[c].input.overwrite /\ processed[eats[c].ref].exists
                      THEN overwritten \cup {eats[c].ref}
                      ELSE overwritten
    /\ EatDone(c)
    /\ last' = Last("eat", c, eats[c].ref, "added", <<>>)
    /\ UNCHANGED <<diskVars, gstate, concurrency, poolVars, attempted,
                   modelCalls, failed, countVars, issued, runOpen>>
    /\ UNCHANGED <<run, fn>>

(***************************************************************************)
(* The process dies: the queue, the workers and the calls in flight are    *)
(* lost, the files stay.  A file that was being written may be left        *)
(* truncated.                                                              *)
(***************************************************************************)
crash ==
    /\ gstate # "down"
    /\ crashCount < MaxCrash
    /\ \E tp \in SUBSET {wk[w].ref : w \in {v \in Workers : wk[v].pc = "write"}},
          tr \in SUBSET {eats[c].ref : c \in {d \in EatSlots : eats[d].pc = "write"}} :
          /\ processed' = [r \in AllRefs |->
                              IF r \in tp THEN Truncated ELSE processed[r]]
          /\ raw' = [r \in AllRefs |-> IF r \in tr THEN Truncated ELSE raw[r]]
    /\ gstate' = "down"
    /\ concurrency' = 1
    /\ queue' = <<>>
    /\ workerHandle' = FALSE
    /\ stopping' = FALSE
    /\ activeWorkers' = 0
    /\ wk' = [w \in Workers |-> NoWorker]
    /\ eats' = [c \in EatSlots |-> NoEat]
    /\ stops' = 0
    /\ enqueued' = ZeroCount
    /\ attempted' = ZeroCount
    /\ modelCalls' = ZeroCount
    /\ failed' = {}
    /\ UNCHANGED <<eaten, overwritten>>
    /\ issued' = "none"
    /\ runOpen' = FALSE
    /\ stopCount' = 0
    /\ UNCHANGED eatCount
    /\ crashCount' = crashCount + 1
    /\ last' = Last("crash", 0, NoRef, "", <<>>)
    /\ UNCHANGED <<run, fn>>

Next ==
    \/ createGreptor
    \/ enqueueUnprocessedDocuments
    \/ start
    \/ stop
    \/ stopReturn
    \/ stopThrow
    \/ \E w \in Workers : workerSleep(w)
    \/ \E w \in Workers : workerCountsRun(w)
    \/ \E w \in Workers : workerRead(w)
    \/ \E w \in Workers : workerCountsDoc(w)
    \/ \E w \in Workers : workerModel(w)
    \/ \E w \in Workers : workerWrite(w)
    \/ \E w \in Workers : workerCountsDone(w)
    \/ \E w \in Workers : workerCountsEnd(w)
    \/ \E c \in AwaitedSlots, input \in EatInputs : eatCall(c, input)
    \/ \E c \in EatSlots : eatExists(c)
    \/ \E c \in EatSlots : eatMkdir(c)
    \/ \E c \in EatSlots : eatWrite(c)
    \/ \E c \in EatSlots : eatReturn(c)
    \/ crash

Spec == Init /\ [][Next]_vars

\* the steps of worker loop w
WorkerStep(w) ==
    \/ workerSleep(w)
    \/ workerCountsRun(w)
    \/ workerRead(w)
    \/ workerCountsDoc(w)
    \/ workerModel(w)
    \/ workerWrite(w)
    \/ workerCountsDone(w)
    \/ workerCountsEnd(w)

\* The event loop runs the continuation of every promise that settles, and
\* the timer, the storage and the model settle every promise a worker loop
\* awaits: a worker loop that can step does step.
FairSpec == Spec /\ \A w \in Workers : WF_vars(WorkerStep(w))

\* a caller that issues eat calls without awaiting the previous one
RaceNext ==
    \/ Next
    \/ \E c \in EatSlots \ AwaitedSlots, input \in EatInputs : eatCall(c, input)

RaceSpec == Init /\ [][RaceNext]_vars

\* the inputs of eat that do not set overwrite
PlainInputs == {i \in EatInputs : ~i.overwrite}

\* a caller that never sets overwrite and does not await one eat call
\* before issuing the next
PlainRaceNext ==
    \/ createGreptor
    \/ enqueueUnprocessedDocuments
    \/ start
    \/ stop
    \/ stopReturn
    \/ stopThrow
    \/ \E w \in Workers : workerSleep(w)
    \/ \E w \in Workers : workerCountsRun(w)
    \/ \E w \in Workers : workerRead(w)
    \/ \E w \in Workers : workerCountsDoc(w)
    \/ \E w \in Workers : workerModel(w)
    \/ \E w \in Workers : workerWrite(w)
    \/ \E w \in Workers : workerCountsDone(w)
    \/ \E w \in Workers : workerCountsEnd(w)
    \/ \E c \in EatSlots, input \in PlainInputs : eatCall(c, input)
    \/ \E c \in EatSlots : eatExists(c)
    \/ \E c \in EatSlots : eatMkdir(c)
    \/ \E c \in EatSlots : eatWrite(c)
    \/ \E c \in EatSlots : eatReturn(c)
    \/ crash

PlainRaceSpec == Init /\ [][PlainRaceNext]_vars

(***************************************************************************)
(* lib/greptor.ts with lib/processing/processor.ts: createGreptor starts   *)
(* the workers itself, there is no start or stop, the workers keep a       *)
(* shared run state, and eat and the worker loop call the observer hooks   *)
(* directly.  A hook handler returns or throws; `t` names the hook whose   *)
(* handler throws when it is invoked in the step ("none": no handler       *)
(* throws).  A step carries a frame: the run state, the queue, the hooks   *)
(* invoked, and whether an exception is propagating.                       *)
(***************************************************************************)
Hooks ==
    {"onProcessingRunStarted", "onProcessingRunCompleted",
     "onDocumentProcessingStarted", "onDocumentProcessingCompleted", "onError"}

HookThrows == Hooks \cup {"none"}

Frame(rn, q) == [run |-> rn, queue |-> q, events |-> <<>>, thrown |-> FALSE]

\* ctx.hooks?.hook?.(event): skipped when an exception already propagates
Invoke(st, hook, doc, success, error, t) ==
    IF st.thrown THEN st
    ELSE IF hook = t
    THEN [st EXCEPT !.events = Append(@, Event(hook, doc, success, "threw")),
                    !.thrown = TRUE]
    ELSE [st EXCEPT !.events = Append(@, Event(hook, doc, success, error))]

\* startBackgroundWorkers.getQueueTotals
getQueueTotals(rn, q) ==
    LET done == IF rn.runActive
                THEN rn.runSuccessCount + rn.runFailureCount ELSE 0
        pending == queueSize(q)
    IN  [processed |-> done, pending |-> pending,
         total |-> done + pending + rn.runInFlightCount]

\* startBackgroundWorkers.startRun
startRun(st, t) ==
    Invoke([st EXCEPT !.run = [@ EXCEPT !.runActive = TRUE,
                                        !.runSuccessCount = 0,
                                        !.runFailureCount = 0,
                                        !.dequeued = 0]],
           "onProcessingRunStarted", NoDoc, TRUE, "", t)

\* startBackgroundWorkers.endRun
endRun(st, t) ==
    IF ~st.run.runActive THEN st
    ELSE Invoke([st EXCEPT !.run = [@ EXCEPT !.runActive = FALSE]],
                "onProcessingRunCompleted", NoDoc, TRUE, "", t)

\* tryEndRun without the in-flight test
tryEndRunQueueOnly(st, t) ==
    IF st.thrown \/ ~st.run.runActive THEN st
    ELSE IF queueSize(st.queue) = 0
    THEN endRun(st, t)
    ELSE st

\* startBackgroundWorkers.tryEndRun
tryEndRun(st, t) ==
    IF st.thrown \/ ~st.run.runActive THEN st
    ELSE IF queueSize(st.queue) = 0 /\ st.run.runInFlightCount = 0
    THEN endRun(st, t)
    ELSE st

\* what a worker loop awaits next, or that its promise rejected
LibAwait(st, pc, ref) ==
    [pc |-> IF st.thrown THEN "crashed" ELSE pc,
     ref |-> IF st.thrown THEN NoRef ELSE ref,
     run |-> st.run, queue |-> st.queue, events |-> st.events]

\* lib workerLoop from the top of while (true) to its first await
LibLoopTop(st, t) ==
    IF st.thrown THEN LibAwait(st, "crashed", NoRef)
    ELSE
    LET s1 == IF getQueueTotals(st.run, st.queue).total > 0 /\ ~st.run.runActive
              THEN startRun(st, t) ELSE st
        d == dequeue(s1.queue)
    IN  IF s1.thrown THEN LibAwait(s1, "crashed", NoRef)
        ELSE IF d.item = NoRef
        THEN LibAwait(tryEndRun(s1, t), "sleep", NoRef)
        ELSE LibAwait([s1 EXCEPT !.queue = d.rest,
                                 !.run.runInFlightCount = @ + 1,
                                 !.run.dequeued = @ + 1],
                      "read", d.item)

\* lib workerLoop after the try/catch/finally of one document
LibAfterDocument(st, doc, success, t) ==
    LibLoopTop(
        tryEndRun(Invoke(st, "onDocumentProcessingCompleted", doc, success, "", t),
                  t),
        t)

\* lib workerLoop: the catch block, then finally, then the rest of the turn
LibCatch(st, doc, error, t) ==
    LET s1 == Invoke([st EXCEPT !.run.runFailureCount = @ + 1],
                     "onError", doc, FALSE, error, t)
        s2 == [s1 EXCEPT !.run.runInFlightCount = @ - 1]
    IN  LibAfterDocument(s2, doc, FALSE, t)

\* lib workerLoop: processDocument returned, then finally, then the rest
LibSuccess(st, doc, t) ==
    LibAfterDocument([st EXCEPT !.run.runSuccessCount = @ + 1,
                                !.run.runInFlightCount = @ - 1],
                     doc, TRUE, t)

\* the for loop of lib startBackgroundWorkers
RECURSIVE LibSpawn(_, _, _, _)
LibSpawn(i, n, acc, t) ==
    IF i > n THEN acc
    ELSE LET a == LibLoopTop([Frame(acc.run, acc.queue) EXCEPT
                                 !.events = acc.events], t)
         IN  LibSpawn(i + 1, n,
                 [run |-> a.run, queue |-> a.queue, events |-> a.events,
                  wk |-> [acc.wk EXCEPT ![i] =
                             [pc |-> a.pc, ref |-> a.ref, raw |-> NoRaw]]],
                 t)

\* lib/greptor.ts createGreptor up to the await of enqueueUnprocessedDocuments
libCreateGreptor ==
    /\ gstate = "down"
    /\ \E n \in 0..MaxWorkers : concurrency' = Max(1, n)
    /\ queue' = createProcessingQueue
    /\ gstate' = "reconciling"
    /\ last' = Last("createGreptor", 0, NoRef, "", <<>>)
    /\ UNCHANGED <<diskVars, poolVars, eats, ghostVars, countVars, run, fn>>

\* lib/greptor.ts createGreptor after that await: the references are
\* enqueued, startBackgroundWorkers runs, the instance is returned
libStartBackgroundWorkers ==
    /\ gstate = "reconciling"
    /\ \E t \in HookThrows :
          LET refs == getUnprocessedContents(raw, processed)
              h == LibSpawn(1, concurrency,
                       [run |-> NoRun, queue |-> EnqueueAll(queue, refs),
                        events |-> <<>>, wk |-> [w \in Workers |-> NoWorker]], t)
          IN  /\ queue' = h.queue
              /\ run' = h.run
              /\ wk' = h.wk
              /\ enqueued' = [r \in AllRefs |->
                     enqueued[r] + Cardinality({i \in DOMAIN refs : refs[i] = r})]
              /\ last' = Last("startBackgroundWorkers", 0, NoRef, "", h.events)
    /\ gstate' = "ready"
    /\ workerHandle' = TRUE
    /\ UNCHANGED <<diskVars, concurrency, stopping, activeWorkers, stops, eats,
                   attempted, modelCalls, failed, eaten, overwritten, issued,
                   runOpen,
                   countVars, fn>>

\* the frame of a lib worker step: worker w, the queue and the run state
LibContinue(w, a) ==
    /\ wk' = [wk EXCEPT ![w] = [pc |-> a.pc, ref |-> a.ref, raw |-> NoRaw]]
    /\ queue' = a.queue
    /\ run' = a.run

\* lib worker w is done with its docRef, or its loop is lost with it
LibFinish(w, a, ok) ==
    /\ LibContinue(w, a)
    /\ attempted' = [attempted EXCEPT ![wk[w].ref] = @ + 1]
    /\ failed' = IF ok THEN failed ELSE failed \cup {wk[w].ref}

\* lib workerLoop: sleep(idleSleepMs) resolved
libWorkerSleep(w) ==
    /\ gstate = "ready"
    /\ wk[w].pc = "sleep"
    /\ \E t \in HookThrows :
          LET a == LibLoopTop(Frame(run, queue), t)
          IN  /\ LibContinue(w, a)
              /\ last' = Last("sleep", w, NoRef, "", a.events)
    /\ UNCHANGED <<diskVars, gstate, concurrency, workerHandle, stopping,
                   activeWorkers, stops, eats, ghostVars, countVars, fn>>

\* lib workerLoop: readRawContent settled; onDocumentProcessingStarted is
\* invoked, then the try block rethrows readError or calls processDocument
libWorkerRead(w) ==
    /\ gstate = "ready"
    /\ wk[w].pc = "read"
    /\ \E res \in readFileOutcomes, t \in HookThrows :
          LET r == readRawContent(raw[wk[w].ref], res = "error")
              doc == resolveDocumentMetadata(wk[w].ref, r.tags)
              s1 == Invoke(Frame(run, queue), "onDocumentProcessingStarted",
                           doc, TRUE, "", t)
          IN  IF s1.thrown
              THEN /\ LibFinish(w, LibAwait(s1, "crashed", NoRef), FALSE)
                   /\ last' = Last("read", w, wk[w].ref, "threw", s1.events)
                   /\ UNCHANGED modelCalls
              ELSE IF ~r.ok
              THEN LET a == LibCatch(s1, doc, "read", t)
                   IN  /\ LibFinish(w, a, FALSE)
                       /\ last' = Last("read", w, wk[w].ref, "error", a.events)
                       /\ UNCHANGED modelCalls
              ELSE /\ wk' = [wk EXCEPT ![w].pc = "model", ![w].raw = r]
                   /\ modelCalls' = [modelCalls EXCEPT ![wk[w].ref] = @ + 1]
                   /\ last' = Last("read", w, wk[w].ref, "ok", s1.events)
                   /\ UNCHANGED <<queue, run, attempted, failed>>
    /\ UNCHANGED <<diskVars, gstate, concurrency, workerHandle, stopping,
                   activeWorkers, stops, eats, enqueued, eaten, overwritten,
                   issued, runOpen, countVars, fn>>

\* lib processDocument: generateText settled
libWorkerModel(w) ==
    /\ gstate = "ready"
    /\ wk[w].pc = "model"
    /\ \E res \in generateTextOutcomes, t \in HookThrows :
          IF res = "text"
          THEN /\ wk' = [wk EXCEPT ![w].pc = "write"]
               /\ last' = Last("model", w, wk[w].ref, res, <<>>)
               /\ UNCHANGED <<queue, run, attempted, failed>>
          ELSE LET doc == resolveDocumentMetadata(wk[w].ref, wk[w].raw.tags)
                   a == LibCatch(Frame(run, queue), doc, res, t)
               IN  /\ LibFinish(w, a, FALSE)
                   /\ last' = Last("model", w, wk[w].ref, res, a.events)
    /\ UNCHANGED <<diskVars, gstate, concurrency, workerHandle, stopping,
                   activeWorkers, stops, eats, enqueued, modelCalls, eaten,
                   overwritten, issued, runOpen,
                   countVars, fn>>

\* lib processDocument: saveProcessedContent settled
libWorkerWrite(w) ==
    /\ gstate = "ready"
    /\ wk[w].pc = "write"
    /\ \E res \in writeFileOutcomes, t \in HookThrows :
          LET doc == resolveDocumentMetadata(wk[w].ref, wk[w].raw.tags)
          IN  IF res = "ok"
              THEN LET a == LibSuccess(Frame(run, queue), doc, t)
                   IN  /\ processed' = [processed EXCEPT ![wk[w].ref] = Rendered(w)]
                       /\ LibFinish(w, a, TRUE)
                       /\ last' = Last("write", w, wk[w].ref, res, a.events)
              ELSE LET a == LibCatch(Frame(run, queue), doc, "write", t)
                   IN  /\ LibFinish(w, a, FALSE)
                       /\ last' = Last("write", w, wk[w].ref, res, a.events)
                       /\ UNCHANGED processed
    /\ UNCHANGED <<raw, gstate, concurrency, workerHandle, stopping,
                   activeWorkers, stops, eats, enqueued, modelCalls, eaten,
                   overwritten, issued, runOpen,
                   countVars, fn>>

\* lib eat: the error result of the format check or of saveRawContent is
\* handed to hooks.onError before eat returns it
LibEatFailure(c, ref, res, input, t) ==
    LET doc == [source |-> input.source, label |-> input.label,
                publisher |-> input.publisher]
        st == Invoke(Frame(run, queue), "onError", doc, FALSE, res, t)
    IN  last' = Last("eat", c, ref, IF st.thrown THEN "threw" ELSE res, st.events)

\* lib eat up to its first await
libEatCall(c, input) ==
    /\ gstate = "ready"
    /\ eatCount < MaxEat
    /\ eats[c].pc = "idle"
    /\ \A d \in EatSlots : d < c => eats[d].pc # "idle"
    /\ eatCount' = eatCount + 1
    /\ IF input.format # "text"
       THEN /\ \E t \in HookThrows :
                  LibEatFailure(c, NoRef, "unsupported", input, t)
            /\ UNCHANGED eats
       ELSE /\ eats' = [d \in EatSlots |->
                   IF d = c
                   THEN [pc |-> "exists", input |-> input, ref |-> RefOf(input),
                         solo |-> \A e \in EatSlots : eats[e].pc = "idle"]
                   ELSE IF eats[d].pc = "idle" THEN eats[d]
                   ELSE [eats[d] EXCEPT !.solo = FALSE]]
            /\ last' = Last("eatCall", c, RefOf(input), "", <<>>)
    /\ UNCHANGED <<diskVars, gstate, concurrency, queue, poolVars, ghostVars,
                   stopCount, crashCount, run, fn>>

\* saveRawContent: mkdir settled; lib eat reports its error result
libEatMkdir(c) ==
    /\ eats[c].pc = "mkdir"
    /\ \E res \in writeFileOutcomes, t \in HookThrows :
          IF res = "ok"
          THEN /\ eats' = [eats EXCEPT ![c].pc = "write"]
               /\ last' = Last("eatMkdir", c, eats[c].ref, res, <<>>)
          ELSE /\ EatDone(c)
               /\ LibEatFailure(c, eats[c].ref, "error", eats[c].input, t)
    /\ UNCHANGED <<diskVars, gstate, concurrency, queue, poolVars, ghostVars,
                   countVars, run, fn>>

\* saveRawContent: writeFile settled; lib eat reports its error result
libEatWrite(c) ==
    /\ eats[c].pc = "write"
    /\ \E res \in writeFileOutcomes, t \in HookThrows :
          IF res = "ok"
          THEN /\ raw' = [raw EXCEPT ![eats[c].ref] =
                             buildRawFileContent(eats[c].input)]
               /\ eats' = [eats EXCEPT ![c].pc = "added"]
               /\ last' = Last("eatWrite", c, eats[c].ref, res, <<>>)
          ELSE /\ EatDone(c)
               /\ LibEatFailure(c, eats[c].ref, "error", eats[c].input, t)
               /\ UNCHANGED raw
    /\ UNCHANGED <<processed, gstate, concurrency, queue, poolVars, ghostVars,
                   countVars, run, fn>>

LibNext ==
    \/ libCreateGreptor
    \/ libStartBackgroundWorkers
    \/ \E w \in Workers : libWorkerSleep(w)
    \/ \E w \in Workers : libWorkerRead(w)
    \/ \E w \in Workers : libWorkerModel(w)
    \/ \E w \in Workers : libWorkerWrite(w)
    \/ \E c \in AwaitedSlots, input \in EatInputs : libEatCall(c, input)
    \/ \E c \in EatSlots : eatExists(c)
    \/ \E c \in EatSlots : libEatMkdir(c)
    \/ \E c \in EatSlots : libEatWrite(c)
    \/ \E c \in EatSlots : eatReturn(c)

LibSpec == Init /\ [][LibNext]_vars

(***************************************************************************)
(* The reference deriver called on its own.  saveRawContent derives the    *)
(* reference of its input before it touches the disk; the calls below are  *)
(* that derivation for inputs drawn from small sets, each call followed by  *)
(* calls whose input differs from the previous one in one field, or that    *)
(* are made at another time.                                                *)
(***************************************************************************)
RefIds == {Absent, <<"a">>, <<"b">>}
RefLabels == {<<>>, <<"!">>, <<"a">>, <<"A">>, <<"a", " ", "b">>}
RefSources == {<<>>, <<"!">>, <<"S">>}
RefPublishers == {Absent, <<>>, <<"!">>, <<"x">>}
RefDates == {NoDate, 11, 12, 21}
RefContents == {<<"a">>, <<"b">>}
RefTags == {<<>>, <<<<<<"k">>, <<"v">>>>>>}
RefClock == {11, 12}

\* the values each field of the input is drawn from
RefFields ==
    [id |-> RefIds, label |-> RefLabels, source |-> RefSources,
     publisher |-> RefPublishers, creationDate |-> RefDates,
     content |-> RefContents, tags |-> RefTags]

RefInputs ==
    [id : RefIds, label : RefLabels, source : RefSources,
     publisher : RefPublishers, creationDate : RefDates,
     content : RefContents, tags : RefTags, format : {"text"},
     overwrite : {FALSE}]

NoRefCall == [input |-> EatInput(<<>>, "text", FALSE), now |-> 0, ref |-> NoRef]

\* saveRawContent's derivation of the reference, at time `now`
RefCall(input, now, before) ==
    [op |-> "generateDocumentRef",
     arg |-> [input |-> input, now |-> now],
     out |-> generateDocumentRef(RefArgs(input), now),
     before |-> before]

RefInit ==
    /\ Blank
    /\ \E input \in RefInputs, now \in RefClock :
          fn = [op |-> "input", arg |-> [input |-> input, now |-> now],
                out |-> NoRef, before |-> NoRefCall]

progVars ==
    <<raw, processed, gstate, concurrency, queue, workerHandle, stopping,
      activeWorkers, wk, eats, stops, last, enqueued, attempted, modelCalls,
      failed, eaten, overwritten, issued, runOpen, eatCount, stopCount,
      crashCount, run>>

\* what a call leaves for the next one to be compared with
Before(call) ==
    [input |-> call.arg.input, now |-> call.arg.now, ref |-> call.out]

\* the first call
refDerive ==
    /\ fn.op = "input"
    /\ fn' = RefCall(fn.arg.input, fn.arg.now, NoRefCall)
    /\ UNCHANGED progVars

\* another call, with one field of the input changed
refDeriveOther(field, value) ==
    /\ fn.op = "generateDocumentRef"
    /\ fn.before = NoRefCall
    /\ fn.arg.input[field] # value
    /\ fn' = RefCall([fn.arg.input EXCEPT ![field] = value], fn.arg.now,
                     Before(fn))
    /\ UNCHANGED progVars

\* another call with the same input, made at another time
refDeriveLater(now) ==
    /\ fn.op = "generateDocumentRef"
    /\ fn.before = NoRefCall
    /\ fn.arg.now # now
    /\ fn' = RefCall(fn.arg.input, now, Before(fn))
    /\ UNCHANGED progVars

RefNext ==
    \/ refDerive
    \/ \E field \in DOMAIN RefFields : \E value \in RefFields[field] :
          refDeriveOther(field, value)
    \/ \E now \in RefClock : refDeriveLater(now)

RefSpec == RefInit /\ [][RefNext]_vars

(***************************************************************************)
(* The sanitizer called on its own, with the caps and fallbacks            *)
(* generateDocumentRef gives it.  A name is a head, a run of letters whose  *)
(* length is near the cap, and a tail of at most MaxTail characters.        *)
(***************************************************************************)
SanAlphabet == {"a", "A", "-", " ", "!"}

SanHeads == {<<>>, <<" ">>, <<"-">>, <<"A">>}

SanTails == UNION {[1..k -> SanAlphabet] : k \in 0..MaxTail}

RECURSIVE Repeat(_, _)
Repeat(c, n) == IF n <= 0 THEN <<>> ELSE <<c>> \o Repeat(c, n - 1)

\* the calls of sanitize in generateDocumentRef: the cap and the fallback of
\* the id, of the label (whose fallback is the sanitized id), of the source
\* and of the publisher
SanCalls ==
    {[of |-> "id", maxLength |-> LabelMaxLength, fallback |-> Unknown],
     [of |-> "label", maxLength |-> LabelMaxLength, fallback |-> <<"a">>],
     [of |-> "label", maxLength |-> LabelMaxLength, fallback |-> Unknown],
     [of |-> "source", maxLength |-> SourceMaxLength, fallback |-> Unknown],
     [of |-> "publisher", maxLength |-> PublisherMaxLength, fallback |-> Unknown]}

SanNames(maxLength) ==
    {h \o Repeat("a", n) \o t :
        h \in SanHeads, n \in {0, maxLength - 2, maxLength - 1, maxLength},
        t \in SanTails}

SanInit ==
    /\ Blank
    /\ \E call \in SanCalls : \E name \in SanNames(call.maxLength) :
          fn = [op |-> "input",
                arg |-> [of |-> call.of, name |-> name,
                         maxLength |-> call.maxLength,
                         fallback |-> call.fallback],
                out |-> <<>>]

sanitizeCall ==
    /\ fn.op = "input"
    /\ fn' = [fn EXCEPT !.op = "sanitize",
                        !.out = sanitize(fn.arg.name, fn.arg.maxLength,
                                         fn.arg.fallback)]
    /\ UNCHANGED progVars

SanNext == sanitizeCall

SanSpec == SanInit /\ [][SanNext]_vars

(***************************************************************************)
(* The raw file as text.  A text is a sequence of characters, NL the line   *)
(* feed.  A JavaScript object is the sequence of its <<key, value>> pairs   *)
(* in insertion order; a value is a string, or Absent for undefined.        *)
(***************************************************************************)
NL == "\n"

KeyId == <<"i", "d">>
KeyTitle == <<"t", "i", "t", "l", "e">>
KeyCreatedAt == <<"c", "r", "e", "a", "t", "e", "d", "_", "a", "t">>
KeySource == <<"s", "o", "u", "r", "c", "e">>
KeyPublisher == <<"p", "u", "b", "l", "i", "s", "h", "e", "r">>

Delimiter == <<"-", "-", "-">>

\* obj[key] = value: an existing key keeps its place
SetKey(obj, key, value) ==
    IF \E i \in DOMAIN obj : obj[i][1] = key
    THEN [i \in DOMAIN obj |-> IF obj[i][1] = key THEN <<key, value>> ELSE obj[i]]
    ELSE Append(obj, <<key, value>>)

\* { ...obj, ...props }
RECURSIVE Spread(_, _)
Spread(obj, props) ==
    IF props = <<>> THEN obj
    ELSE Spread(SetKey(obj, Head(props)[1], Head(props)[2]), Tail(props))

\* Date.prototype.toISOString of a day number
toISOString(ts) == toISODate(ts) \o <<"T", "0", "Z">>

\* lines.join("\n")
RECURSIVE Join(_)
Join(lines) ==
    IF lines = <<>> THEN <<>>
    ELSE IF Len(lines) = 1 THEN lines[1]
    ELSE lines[1] \o <<NL>> \o Join(Tail(lines))

AllDigits(s) == s # <<>> /\ \A i \in DOMAIN s : s[i] \in Digits

\* the words the YAML core schema reads as null or as a boolean
YamlNull == {<<"n", "u", "l", "l">>, <<"~">>}
YamlBool == {<<"t", "r", "u", "e">>, <<"f", "a", "l", "s", "e">>}

\* YAML.stringify writes a string plain when the plain text reads back as the
\* same string: not empty, no white space at either end, no line feed, not a
\* number, null or boolean, no indicator at its start and no ": " or " #"
IsPlainSafe(s) ==
    /\ s # <<>>
    /\ s[1] \notin Whitespace /\ s[Len(s)] \notin Whitespace
    /\ \A i \in DOMAIN s : s[i] # NL /\ s[i] # "\""
    /\ ~AllDigits(s)
    /\ s \notin YamlNull \cup YamlBool
    /\ s[1] \notin {"-", "!", "[", "{", "#", "&", "*", "|", ">", "'", "%", "@", "?", ":"}
    /\ s[Len(s)] # ":"
    /\ \A i \in 1..(Len(s) - 1) :
          ~(s[i] = ":" /\ s[i + 1] = " ") /\ ~(s[i] = " " /\ s[i + 1] = "#")

\* a string without line feed or quote inside double quotes
QuoteDouble(s) == <<"\"">> \o s \o <<"\"">>

\* YAML.stringify of a string
StringifyScalar(s) == IF IsPlainSafe(s) THEN s ELSE QuoteDouble(s)

\* YAML.stringify of an object whose values are strings: one "key: value" line
\* per defined value, each ended by a line feed; "{}" for no line at all
RECURSIVE StringifyPairs(_)
StringifyPairs(obj) ==
    IF obj = <<>> THEN <<>>
    ELSE (IF Head(obj)[2] = Absent THEN <<>>
          ELSE Head(obj)[1] \o <<":", " ">> \o StringifyScalar(Head(obj)[2]) \o <<NL>>)
         \o StringifyPairs(Tail(obj))

YAMLstringify(obj) ==
    IF StringifyPairs(obj) = <<>> THEN <<"{", "}", NL>> ELSE StringifyPairs(obj)

\* createFileStorage.buildRawFileContent, as the text it returns
buildRawFileContentText(input, now) ==
    LET created == IF input.creationDate = NoDate THEN now ELSE input.creationDate
        base == <<<<KeyId, input.id>>, <<KeyTitle, input.label>>,
                  <<KeyCreatedAt, toISOString(created)>>>>
        withSource == SetKey(Spread(base, input.tags), KeySource, input.source)
        yamlHeader ==
            IF input.publisher # Absent /\ input.publisher # <<>>
            THEN SetKey(withSource, KeyPublisher, input.publisher)
            ELSE withSource
        yamlHeaderString == YAMLstringify(yamlHeader)
    IN  Join(<<Delimiter, Trim(yamlHeaderString), Delimiter, <<>>,
               Trim(input.content)>>)

StartsWith(s, p) == Len(s) >= Len(p) /\ SubSeq(s, 1, Len(p)) = p

\* String.prototype.indexOf(p, from): positions count from zero, -1 is "absent"
indexOf(s, p, from) ==
    LET hits == {i \in from..(Len(s) - Len(p)) : SubSeq(s, i + 1, i + Len(p)) = p}
    IN  IF hits = {} THEN 0 - 1 ELSE CHOOSE i \in hits : \A j \in hits : i <= j

\* String.prototype.slice(from, to), positions counting from zero
Substring(s, from, to) == SubSeq(s, from + 1, to)

RECURSIVE SplitLines(_)
SplitLines(s) ==
    LET i == indexOf(s, <<NL>>, 0)
    IN  IF i = 0 - 1 THEN <<s>>
        ELSE <<SubSeq(s, 1, i)>> \o SplitLines(SubSeq(s, i + 2, Len(s)))

\* YAML.parse of a scalar: a double-quoted text is the string inside the
\* quotes; a plain text is null, a number, a boolean or the string itself.
\* What is not a string is the text behind a word that names its type.
ParseScalar(text) ==
    LET v == Trim(text)
    IN  IF Len(v) >= 2 /\ v[1] = "\"" /\ v[Len(v)] = "\"" THEN SubSeq(v, 2, Len(v) - 1)
        ELSE IF v = <<>> \/ v \in YamlNull THEN <<"null">>
        ELSE IF AllDigits(v) THEN <<"number">> \o v
        ELSE IF v \in YamlBool THEN <<"boolean">> \o v
        ELSE v

\* what a line of a YAML document is: blank or comment, an item of a block
\* sequence, a flow sequence, a flow mapping, a "key: value" pair, or the text
\* of a scalar
LineKind(line) ==
    IF Trim(line) = <<>> \/ line[1] = "#" THEN "blank"
    ELSE IF line = <<"-">> \/ StartsWith(line, <<"-", " ">>) THEN "item"
    ELSE IF line[1] = "[" THEN "flowlist"
    ELSE IF line[1] = "{" THEN "flowmap"
    ELSE IF line[1] = "\"" THEN "scalar"
    ELSE IF indexOf(line, <<":", " ">>, 0) # 0 - 1 \/ line[Len(line)] = ":" THEN "pair"
    ELSE "scalar"

PairOf(line) ==
    LET i == indexOf(line, <<":", " ">>, 0)
    IN  IF i = 0 - 1 THEN <<SubSeq(line, 1, Len(line) - 1), <<"null">>>>
        ELSE <<Trim(SubSeq(line, 1, i)), ParseScalar(SubSeq(line, i + 3,
        Len(line)))>>

\* YAML.parse of a document of unindented lines: kind is "map" (pairs holds
\* the mapping), "list", "scalar", "null", or "error" when parse throws
YAMLparse(text) ==
    LET all == SplitLines(text)
        doc == IF all[1] = Delimiter THEN Tail(all) ELSE all
        lines == SelectSeq(doc, LAMBDA l : LineKind(l) # "blank")
        kinds == {LineKind(lines[i]) : i \in DOMAIN lines}
        pairs == [i \in DOMAIN lines |-> PairOf(lines[i])]
        Result(kind, p) == [kind |-> kind, pairs |-> p]
    IN  IF lines = <<>> THEN Result("null", <<>>)
        ELSE IF kinds = {"pair"}
             THEN IF \A i, j \in DOMAIN pairs : pairs[i][1] = pairs[j][1] => i = j
                  THEN Result("map", pairs)
                  ELSE Result("error", <<>>)
        ELSE IF kinds = {"item"} THEN Result("list", <<>>)
        ELSE IF kinds = {"scalar"}
             THEN IF Len(lines) = 1 /\ Trim(lines[1]) \in YamlNull
                  THEN Result("null", <<>>)
                  ELSE Result("scalar", <<>>)
        ELSE IF Len(lines) = 1 /\ lines[1] = <<"[", "]">> THEN Result("list", <<>>)
        ELSE IF Len(lines) = 1 /\ lines[1] = <<"{", "}">> THEN Result("map", <<>>)
        ELSE Result("error", <<>>)

\* readRawContent throws, or readFile rejects
NoRead == [ok |-> FALSE, tags |-> <<>>, content |-> <<>>]

\* createFileStorage.readRawContent on a file that is missing or holds a text
readRawContentText(file) ==
    IF ~file.exists THEN NoRead
    ELSE LET content == file.text
             endIndex == indexOf(content, <<NL>> \o Delimiter, 4)
             after == Substring(content, endIndex + 4, Len(content))
             body == IF StartsWith(after, <<NL>>) THEN Tail(after) ELSE after
             yamlHeader == TrimEnd(Substring(content, 4, endIndex))
             parsed == YAMLparse(yamlHeader)
         IN  IF ~StartsWith(content, Delimiter \o <<NL>>) THEN NoRead
             ELSE IF endIndex = 0 - 1 THEN NoRead
             ELSE IF parsed.kind # "map" THEN NoRead
             ELSE [ok |-> TRUE, tags |-> parsed.pairs, content |-> body]

(***************************************************************************)
(* The storage's writer and reader of raw files called on their own: a     *)
(* document is written and read back, or a file somebody else left in the   *)
(* raw layer is read.                                                       *)
(***************************************************************************)
RawContents ==
    {<<>>, <<" ">>, <<"a">>, <<" ", "a", " ">>, <<"a", NL, "b">>,
     <<NL, "a", NL>>, <<"a", NL, "-", "-", "-", NL, "b">>}
RawLabels == {<<>>, <<"a">>, <<"A", " ", "b">>, <<"1">>}
RawSources == {<<"S">>, <<"s", " ", "1">>}
RawPublishers == {Absent, <<>>, <<"x">>}
RawIds == {Absent, <<"a">>, <<"1">>}
RawDates == {NoDate, 12}
RawTags ==
    {<<>>, <<<<<<"k">>, <<"v">>>>>>, <<<<<<"k">>, <<>>>>>>,
     <<<<<<"k">>, <<"1">>>>, <<<<"m">>, <<"a", " ", "b">>>>>>,
     <<<<KeyTitle, <<"b">>>>>>}

RawInputs ==
    [id : RawIds, label : RawLabels, source : RawSources,
     publisher : RawPublishers, creationDate : RawDates,
     content : RawContents, tags : RawTags, format : {"text"},
     overwrite : {FALSE}]

\* the lines a file left in the raw layer may begin with, hold as its header,
\* close its header with, and go on with
FileOpenings == {<<>>, <<Delimiter>>, <<Delimiter \o <<"-">>>>, <<<<"a">>>>, <<<<>>, Delimiter>>}
FileHeaders ==
    {<<>>, <<<<"a", ":", " ", "b">>>>, <<<<"a", ":", " ", "b">>, <<"c", ":", " ", "1">>>>,
     <<<<"-", " ", "a">>>>, <<<<"a">>>>, <<<<"n", "u", "l", "l">>>>, <<<<"[", "]">>>>,
     <<<<"4">>>>, <<<<"a", ":", " ", "b">>, <<"-", " ", "a">>>>}
FileClosings ==
    {<<>>, <<Delimiter>>, <<Delimiter \o <<"-">>>>, <<Delimiter \o <<"x">>>>,
     <<<<"-", "-">>>>}
FileBodies == {<<>>, <<<<>>>>, <<<<>>, <<"a">>>>, <<<<"a">>>>}

NoText == [exists |-> FALSE, text |-> <<>>]

RawFiles ==
    {NoText} \cup
    {[exists |-> TRUE, text |-> Join(o \o h \o c \o b)] :
        o \in FileOpenings, h \in FileHeaders, c \in FileClosings, b \in FileBodies}

NoInput ==
    [id |-> Absent, label |-> <<>>, source |-> <<>>, publisher |-> Absent,
     creationDate |-> NoDate, content |-> <<>>, tags |-> <<>>, format |-> "text",
     overwrite |-> FALSE]

RawInit ==
    /\ Blank
    /\ \/ \E input \in RawInputs :
             fn = [op |-> "input", arg |-> input, file |-> NoText, out |-> NoRead]
       \/ \E file \in RawFiles :
             fn = [op |-> "file", arg |-> NoInput, file |-> file, out |-> NoRead]

\* saveRawContent: writeFile(fullPath, buildRawFileContent(input))
rawSave ==
    /\ fn.op = "input"
    /\ fn' = [fn EXCEPT !.op = "saved",
                        !.file = [exists |-> TRUE,
                                  text |-> buildRawFileContentText(fn.arg, ClockNow)]]
    /\ UNCHANGED progVars

\* readRawContent of the file just saved, or of the file found
rawRead ==
    /\ fn.op \in {"saved", "file"}
    /\ fn' = [fn EXCEPT !.op = IF fn.op = "saved" THEN "readSaved" ELSE "readFound",
                        !.out = readRawContentText(fn.file)]
    /\ UNCHANGED progVars

RawNext == rawSave \/ rawRead

RawSpec == RawInit /\ [][RawNext]_vars

(***************************************************************************)
(* The tag schema at startup.  A schema is the list of its fields' names;   *)
(* the schema file holds its YAML text, one "- name: x" line per field.     *)
(* initializeTagSchema resolves the schema from the caller's option, the    *)
(* file, or the model; createGreptor of lib/index.ts requires the option    *)
(* and writes it to the configuration file.                                 *)
(***************************************************************************)
SchemaFieldNames == {<<"a">>, <<"b">>, <<"c">>}

TagSchemas == UNION {[1..k -> SchemaFieldNames] : k \in 0..MaxSchemaFields}

\* no schema given, no schema resolved
NoSchema == <<<<"undefined">>>>

ItemPrefix == <<"-", " ", "n", "a", "m", "e", ":", " ">>

\* YAML.stringify(tagSchema)
RECURSIVE StringifySchema(_)
StringifySchema(schema) ==
    IF schema = <<>> THEN <<>>
    ELSE ItemPrefix \o Head(schema) \o <<NL>> \o StringifySchema(Tail(schema))

SchemaText(schema) ==
    IF schema = <<>> THEN <<"[", "]", NL>> ELSE StringifySchema(schema)

\* YAML.parse of the schema file
ParseSchema(text) ==
    LET lines == SelectSeq(SplitLines(text), LAMBDA l : l # <<>>)
    IN  IF lines = <<<<"[", "]">>>> THEN <<>>
        ELSE [i \in DOMAIN lines |->
                 SubSeq(lines[i], Len(ItemPrefix) + 1, Len(lines[i]))]

\* the schema the model generates for the topic
GeneratedSchema == <<<<"c">>>>

SchemaFiles == {NoText} \cup {[exists |-> TRUE, text |-> SchemaText(s)] : s \in TagSchemas}

SchemaInit ==
    /\ Blank
    /\ \E entry \in {"initializeTagSchema", "createGreptor"},
          given \in TagSchemas \cup {NoSchema}, file \in SchemaFiles :
          fn = [op |-> "call", entry |-> entry, arg |-> given, file |-> file,
                before |-> file, write |-> NoSchema, out |-> NoSchema,
                threw |-> FALSE]

\* a variant of initializeTagSchema that looks at the file first
schemaCallFileFirst ==
    /\ fn.op = "call" /\ fn.entry = "initializeTagSchema"
    /\ fn' = [fn EXCEPT !.op = "fileExists"]
    /\ UNCHANGED progVars

\* initializeTagSchema up to its first await: a given schema is persisted
\* (mkdir), otherwise the file is looked for (fileExists)
schemaCall ==
    /\ fn.op = "call" /\ fn.entry = "initializeTagSchema"
    /\ fn' = IF fn.arg # NoSchema
             THEN [fn EXCEPT !.op = "mkdir", !.write = fn.arg]
             ELSE [fn EXCEPT !.op = "fileExists"]
    /\ UNCHANGED progVars

\* createGreptor (lib/index.ts) up to writeConfig: a missing or empty schema
\* is an error, otherwise the configuration file is written (mkdir)
schemaConfig ==
    /\ fn.op = "call" /\ fn.entry = "createGreptor"
    /\ fn' = IF fn.arg = NoSchema \/ Len(fn.arg) = 0
             THEN [fn EXCEPT !.op = "returned", !.threw = TRUE]
             ELSE [fn EXCEPT !.op = "mkdir", !.write = fn.arg]
    /\ UNCHANGED progVars

\* persist / writeConfig: mkdir settled
schemaMkdir ==
    /\ fn.op = "mkdir"
    /\ \E res \in writeFileOutcomes :
          fn' = IF res = "ok" THEN [fn EXCEPT !.op = "writeFile"]
                ELSE [fn EXCEPT !.op = "returned", !.threw = TRUE]
    /\ UNCHANGED progVars

\* persist / writeConfig: writeFile settled; the schema written is returned
schemaWrite ==
    /\ fn.op = "writeFile"
    /\ \E res \in writeFileOutcomes :
          fn' = IF res = "ok"
                THEN [fn EXCEPT !.op = "returned",
                                !.file = [exists |-> TRUE, text |-> SchemaText(fn.write)],
                                !.out = fn.write]
                ELSE [fn EXCEPT !.op = "returned", !.threw = TRUE]
    /\ UNCHANGED progVars

\* fileExists settled: the file is read, or the schema is generated
schemaExists ==
    /\ fn.op = "fileExists"
    /\ fn' = [fn EXCEPT !.op = IF fn.file.exists THEN "readFile" ELSE "generate"]
    /\ UNCHANGED progVars

\* readFile settled: the parsed text is returned
schemaRead ==
    /\ fn.op = "readFile"
    /\ \E res \in readFileOutcomes :
          fn' = IF res = "ok"
                THEN [fn EXCEPT !.op = "returned", !.out = ParseSchema(fn.file.text)]
                ELSE [fn EXCEPT !.op = "returned", !.threw = TRUE]
    /\ UNCHANGED progVars

\* generateTagSchema settled: the generated schema is persisted
schemaGenerate ==
    /\ fn.op = "generate"
    /\ \E res \in {"schema", "raise"} :
          fn' = IF res = "schema"
                THEN [fn EXCEPT !.op = "mkdir", !.write = GeneratedSchema]
                ELSE [fn EXCEPT !.op = "returned", !.threw = TRUE]
    /\ UNCHANGED progVars

SchemaNext ==
    \/ schemaCall
    \/ schemaConfig
    \/ schemaMkdir
    \/ schemaWrite
    \/ schemaExists
    \/ schemaRead
    \/ schemaGenerate

SchemaSpec == SchemaInit /\ [][SchemaNext]_vars

(***************************************************************************)
(* One turn of workerLoop for one dequeued reference, on its own: the      *)
(* reference, the raw file found at it and the outcomes of the awaited     *)
(* calls are drawn; the turn reads the raw record, resolves the identity,  *)
(* notifies, and runs processDocument.  `fn` holds the turn: what was      *)
(* read, the notifications so far, the model invocations and whether the   *)
(* processed record was written.                                           *)
(***************************************************************************)
DocInputs ==
    {i \in RefInputs :
        /\ i.id = Absent /\ i.creationDate = 11 /\ i.content = <<"a">>
        /\ i.tags = <<>> /\ i.label \in {<<"a">>, <<"a", " ", "b">>}}

DocRefs == {generateDocumentRef(RefArgs(i), ClockNow) : i \in DocInputs}

DocTagValues ==
    {Absent, NotAString, <<>>, <<" ">>, <<"T">>, <<" ", "T", " ">>}

DocFiles ==
    {NoFile, Truncated} \cup
    {[exists |-> TRUE, intact |-> TRUE,
      tags |-> [title |-> t, source |-> s, publisher |-> p],
      body |-> <<"a">>] : t \in DocTagValues, s \in DocTagValues,
                          p \in DocTagValues}

TurnInit ==
    /\ Blank
    /\ \E ref \in DocRefs, file \in DocFiles :
          fn = [op |-> "read", ref |-> ref, file |-> file, raw |-> NoRaw,
                events |-> <<>>, modelCalls |-> 0, wrote |-> FALSE]

TurnEvent(hook, success, error) ==
    Event(hook, resolveDocumentMetadata(fn.ref, fn.raw.tags), success, error)

\* the catch block of the turn: the failure is reported
TurnFailed(error) ==
    fn' = [fn EXCEPT !.op = "failed",
              !.events = Append(@, TurnEvent("onDocumentProcessingCompleted",
                                             FALSE, error))]

\* workerLoop: readRawContent settled; its error is kept in readError
turnRead ==
    /\ fn.op = "read"
    /\ \E res \in readFileOutcomes :
          fn' = [fn EXCEPT !.op = "countsDoc",
                    !.raw = readRawContent(fn.file, res = "error")]
    /\ UNCHANGED progVars

\* workerLoop: getDocumentCounts settled, onDocumentProcessingStarted, then
\* the try block rethrows readError or processDocument calls generateText
turnCountsDoc ==
    /\ fn.op = "countsDoc"
    /\ \E res \in getDocumentCountsOutcomes :
          IF res = "error"
          THEN fn' = [fn EXCEPT !.op = "rejected"]
          ELSE IF ~fn.raw.ok
          THEN fn' = [fn EXCEPT !.op = "failed",
                         !.events = <<TurnEvent("onDocumentProcessingStarted",
                                                TRUE, ""),
                                      TurnEvent("onDocumentProcessingCompleted",
                                                FALSE, "read")>>]
          ELSE fn' = [fn EXCEPT !.op = "model",
                         !.modelCalls = @ + 1,
                         !.events = <<TurnEvent("onDocumentProcessingStarted",
                                                TRUE, "")>>]
    /\ UNCHANGED progVars

\* processDocument: generateText settled
turnModel ==
    /\ fn.op = "model"
    /\ \E res \in generateTextOutcomes :
          IF res = "text"
          THEN fn' = [fn EXCEPT !.op = "write"]
          ELSE TurnFailed(res)
    /\ UNCHANGED progVars

\* processDocument: saveProcessedContent settled
turnWrite ==
    /\ fn.op = "write"
    /\ \E res \in writeFileOutcomes :
          IF res = "ok"
          THEN fn' = [fn EXCEPT !.op = "countsDone", !.wrote = TRUE]
          ELSE TurnFailed("write")
    /\ UNCHANGED progVars

\* workerLoop: getDocumentCounts before the success notification settled
turnCountsDone ==
    /\ fn.op = "countsDone"
    /\ \E res \in getDocumentCountsOutcomes :
          IF res = "ok"
          THEN fn' = [fn EXCEPT !.op = "completed",
                         !.events = Append(@,
                             TurnEvent("onDocumentProcessingCompleted", TRUE, ""))]
          ELSE TurnFailed("counts")
    /\ UNCHANGED progVars

TurnNext ==
    \/ turnRead
    \/ turnCountsDoc
    \/ turnModel
    \/ turnWrite
    \/ turnCountsDone

TurnSpec == TurnInit /\ [][TurnNext]_vars

(***************************************************************************)
(* Properties.                                                             *)
(***************************************************************************)
\* entries of the queue that hold reference r
InQueue(r) == Cardinality({i \in DOMAIN queue : queue[i] = r})

\* worker loops that hold reference r as their docRef
InFlight(r) == Cardinality({w \in Workers : wk[w].ref = r})

\* references with a raw file and no processed file
Outstanding == {r \in AllRefs : raw[r].exists /\ ~processed[r].exists}

\* the step in which generateText rejects for the docRef of worker w
ModelRaises(w) ==
    /\ wk[w].pc = "model"
    /\ last'.op = "model" /\ last'.w = w /\ last'.res = "raise"

C2_WorkerLoopNeverTerminates ==
    \A w \in Workers :
        /\ wk[w].pc # "crashed"
        /\ wk[w].pc = "exited" => stopping

\* the processed file rendered from the raw file that eat input i writes
RenderOf(i) ==
    LET r == readRawContent(buildRawFileContent(i), FALSE)
    IN  renderProcessedDocument(r.tags,
            ModelText(createProcessingPrompt(r.content, Absent)))

\* C3: for any number of workers, a reference that entered the queue once
\* and whose processing did not fail is handed to the model at most once and
\* attempted at most once; once it is neither queued nor in flight it was
\* attempted exactly once, the model was invoked exactly once for it, and its
\* processed file is the complete render of one raw file written for it.
C3_ConcurrencySafety ==
    \A r \in AllRefs :
        (enqueued[r] = 1 /\ r \notin failed) =>
            /\ modelCalls[r] <= 1
            /\ attempted[r] <= 1
            /\ (InQueue(r) = 0 /\ InFlight(r) = 0) =>
                  /\ attempted[r] = 1
                  /\ modelCalls[r] = 1
                  /\ processed[r] \in
                        {RenderOf(i) : i \in {j \in EatInputs : RefOf(j) = r}}

\* C3 witness: two workers ran, worker 2 just finished a document, and every
\* reference was enqueued once, attempted once and processed
C3_Witness ==
    /\ concurrency = 2
    /\ last.op = "countsDone" /\ last.w = 2 /\ last.res = "ok"
    /\ \A r \in AllRefs :
          /\ enqueued[r] = 1 /\ attempted[r] = 1 /\ r \notin failed
          /\ processed[r].intact

\* C4: every entry enqueued in this process lifetime is in the queue, is
\* held by exactly one worker, or was attempted once: per reference the
\* three counts add up to the number of entries enqueued.
C4_NoEntryLostOrShared ==
    \A r \in AllRefs : enqueued[r] = InQueue(r) + InFlight(r) + attempted[r]

\* C4 witness: an eat call returned and enqueued its reference while a
\* worker holds another reference
C4_Witness ==
    /\ last.op = "eat" /\ last.res = "added"
    /\ InQueue(last.ref) = 1
    /\ \E w \in Workers : wk[w].ref # NoRef /\ wk[w].ref # last.ref

\* C5: when the startup reconciliation has run, the queue holds exactly the
\* references with a raw file and no processed file, each once, in
\* localeCompare order.
C5_RecoveryReconciliation ==
    last.op = "enqueueUnprocessedDocuments" =>
        /\ Range(queue) = Outstanding
        /\ \A i, j \in DOMAIN queue :
              i < j => localeCompareLess(queue[i], queue[j])
        /\ \A r \in AllRefs : enqueued[r] = IF r \in Outstanding THEN 1 ELSE 0
        /\ last.events = queue

\* C5 witness: reconciliation enqueued a reference and left out one that
\* has a processed file
C5_Witness ==
    /\ last.op = "enqueueUnprocessedDocuments"
    /\ queue # <<>>
    /\ \E r \in AllRefs : processed[r].exists /\ InQueue(r) = 0

\* an eat call has written the raw file of r and has not yet enqueued r
EatPending(r) == \E c \in EatSlots : eats[c].pc = "added" /\ eats[c].ref = r

\* after a crash and the next startup every outstanding reference is pending
C6_Pending ==
    crashCount >= 1 =>
        /\ last.op = "enqueueUnprocessedDocuments" =>
              \A r \in Outstanding : InQueue(r) = 1
        /\ gstate = "ready" =>
              \A r \in Outstanding :
                  \/ InQueue(r) + InFlight(r) >= 1
                  \/ EatPending(r)
                  \/ r \in failed

\* a pending reference of a restarted process whose workers run is settled:
\* it gets a processed file, unless its attempt fails, a stop is signalled,
\* the process dies again or a worker loop is lost
C6_EventuallyProcessed ==
    \A r \in AllRefs :
        (crashCount >= 1 /\ workerHandle /\ ~stopping
            /\ InQueue(r) + InFlight(r) >= 1)
          ~> (\/ processed[r].exists
              \/ r \in failed
              \/ stopping
              \/ gstate = "down"
              \/ \E w \in Workers : wk[w].pc = "crashed")

C7_StartupOrdering ==
    [][/\ last'.op = "createGreptor" => queue' = <<>>
       /\ gstate = "reconciling" =>
             /\ \A w \in Workers : wk[w].pc = "none" /\ wk'[w].pc = "none"
             /\ ~workerHandle
             /\ gstate' = "ready" => queue' = getUnprocessedContents(raw, processed)
       /\ (Len(queue') < Len(queue) /\ gstate' # "down") => gstate = "ready"
      ]_vars

\* C7 witness: createGreptor awaits the reconciliation while references are
\* outstanding
C7_Witness ==
    /\ gstate = "reconciling"
    /\ Outstanding # {}

\* C8: after a start() that started the workers, every reference with a raw
\* file and no processed file is in the queue or in flight (or is about to
\* be enqueued by the eat call that wrote it).
C8_StartEnqueuesUnprocessed ==
    (last.op = "start" /\ last.res = "started") =>
        \A r \in Outstanding : InQueue(r) + InFlight(r) >= 1 \/ EatPending(r)

\* the step in which fileExists settles for eat call c, which follows a
\* successful eat of the same reference and overlaps no other eat call
SecondEat(c) ==
    /\ eats[c].pc = "exists"
    /\ eats'[c].pc # "exists"
    /\ last'.op # "crash"
    /\ eats[c].solo
    /\ eats[c].ref \in eaten

\* C9: an eat call without overwrite for a reference that an earlier eat
\* call added returns the duplicate failure; it leaves the raw layer as it
\* is, enqueues nothing and is over (it writes nothing later).
C9_DuplicateDetection ==
    [][\A c \in EatSlots : (SecondEat(c) /\ ~eats[c].input.overwrite) =>
          /\ last' = Last("eat", c, eats[c].ref, "duplicate", <<>>)
          /\ raw' = raw
          /\ raw[eats[c].ref].exists
          /\ queue' = queue
          /\ enqueued' = enqueued
          /\ eats'[c] = NoEat
      ]_vars

\* C9 witness: eat returned duplicate for a reference that was added and
\* enqueued once
C9_Witness ==
    /\ last.op = "eat" /\ last.res = "duplicate"
    /\ last.ref \in eaten
    /\ enqueued[last.ref] = 1
    /\ raw[last.ref].intact

\* C10: an eat call with overwrite for a reference that an earlier eat call
\* added is not rejected as a duplicate: it goes on to write; its write
\* leaves the raw file holding its own header and content; and its return
\* reports added and appends the reference to the queue again, the raw file
\* still being the one it wrote.
C10_OverwriteSemantics ==
    [][\A c \in EatSlots :
          /\ (SecondEat(c) /\ eats[c].input.overwrite) =>
                /\ eats'[c] = [eats[c] EXCEPT !.pc = "write"]
                /\ raw' = raw
          /\ (eats[c].pc = "write" /\ last'.op = "eatWrite" /\ last'.w = c) =>
                /\ raw' = [raw EXCEPT ![eats[c].ref] =
                              buildRawFileContent(eats[c].input)]
                /\ eats'[c] = [eats[c] EXCEPT !.pc = "added"]
          /\ (eats[c].pc = "added" /\ eats'[c].pc # "added" /\ last'.op # "crash") =>
                /\ last' = Last("eat", c, eats[c].ref, "added", <<>>)
                /\ queue' = Append(queue, eats[c].ref)
                /\ enqueued' = [enqueued EXCEPT ![eats[c].ref] = @ + 1]
                /\ eats[c].solo =>
                      raw'[eats[c].ref] = buildRawFileContent(eats[c].input)
      ]_vars

\* C10 witness: the second eat of a reference, with overwrite, returned
\* added; the raw file holds its header and the reference was enqueued twice
C10_Witness ==
    /\ last.op = "eat" /\ last.res = "added"
    /\ enqueued[last.ref] = 2
    /\ raw[last.ref] = buildRawFileContent(EatInput(<<"A">>, "text", TRUE))
    /\ raw[last.ref] # buildRawFileContent(EatInput(<<"a">>, "text", FALSE))


\* C11: every eat call either starts saveRawContent for an input whose format
\* is "text", or returns at once the unsupported-format failure and leaves
\* the raw layer, the processed layer, the queue and the calls in flight as
\* they are; no call in flight ever carries another format.
C11_InputRejection ==
    [][eatCount' = eatCount + 1 =>
          \/ /\ last'.op = "eatCall"
             /\ eats'[last'.w].pc = "exists"
             /\ eats'[last'.w].input.format = "text"
          \/ /\ last'.op = "eat" /\ last'.res = "unsupported"
             /\ raw' = raw
             /\ processed' = processed
             /\ queue' = queue
             /\ enqueued' = enqueued
             /\ eats' = eats
      ]_vars

\* C11 witness: eat returned the unsupported-format failure while a raw file
\* exists and a reference is queued
C11_Witness ==
    /\ last.op = "eat" /\ last.res = "unsupported"
    /\ queue # <<>>
    /\ \E r \in AllRefs : raw[r].exists


\* the notifications of the step just taken report the end of a document
CompletionReported(events) ==
    \E i \in DOMAIN events : events[i].hook = "onDocumentProcessingCompleted"

\* C13: once stop is signalled no worker takes a further reference and the
\* queue does not shrink; a worker that holds a reference lets go of it only
\* in a step that reports the end of that document (the processed file
\* written, or the failure); and stop() returns only when every worker loop
\* has exited.
C13_CooperativeStop ==
    [][(stopping /\ workerHandle /\ last'.op # "crash") =>
          /\ Len(queue') >= Len(queue)
          /\ \A w \in Workers :
                /\ wk'[w].ref \in {wk[w].ref, NoRef}
                /\ (wk[w].ref # NoRef /\ wk'[w].ref = NoRef) =>
                      /\ CompletionReported(last'.events)
                      /\ last'.events[Len(last'.events)].doc =
                            resolveDocumentMetadata(wk[w].ref, wk[w].raw.tags)
          /\ last'.op = "stopReturn" =>
                \A w \in Workers : wk[w].pc \in {"none", "exited"}
      ]_vars


\* the worker loops were started, none has ended and no stop was signalled
WorkersRunning ==
    /\ workerHandle
    /\ ~stopping
    /\ Spawned # {}
    /\ \A w \in Spawned : wk[w].pc \notin {"exited", "crashed"}

\* C14: when eat has returned success for reference r while the workers are
\* running, r eventually has a processed file, unless the model call or a
\* storage operation of r's own attempt fails, stop is signalled or the
\* process dies.
C14_EventualProcessing ==
    \A r \in AllRefs :
        (last.op = "eat" /\ last.res = "added" /\ last.ref = r /\ WorkersRunning)
          ~> (\/ processed[r].exists
              \/ r \in failed
              \/ stopping
              \/ gstate = "down")


\* the typed results of eat
EatResults == {"added", "duplicate", "unsupported", "error"}

\* C12: every eat call ends with a typed result (success, or the duplicate,
\* unsupported-format or storage-error failure), never with an exception, and
\* a call that ends with a failure enqueues nothing.
C12_EatNeverThrows ==
    [][(last'.op = "eat" /\ last' # last) =>
          /\ last'.res \in EatResults
          /\ last'.res # "added" => (queue' = queue /\ enqueued' = enqueued)
      ]_vars

\* a handler threw in the step just taken
HookThrew(events) == \E i \in DOMAIN events : events[i].error = "threw"

\* C15: a step of worker w in which a hook handler throws does not end the
\* worker loop: the loop awaits its next promise as usual, and the in-flight
\* count equals the number of workers that hold a reference.
C15_HooksBestEffort ==
    [][\A w \in Workers :
          (last' # last /\ last'.w = w /\ wk'[w] # wk[w] /\ HookThrew(last'.events)) =>
              /\ wk'[w].pc \in {"sleep", "read", "model", "write"}
              /\ run'.runInFlightCount =
                    Cardinality({v \in Workers : wk'[v].ref # NoRef})
      ]_vars

\* the date both date-bearing parts of a reference are taken from
EffectiveDate(input, now) ==
    IF input.creationDate = NoDate THEN now ELSE input.creationDate

\* the four values the reference is said to be a function of
RefKey(input, now) ==
    <<input.source, input.publisher, input.label,
      toISODate(EffectiveDate(input, now))>>

\* the id, where the label leaves nothing to name the file with
RefKeyId(input) ==
    IF sanitize(input.label, LabelMaxLength, <<>>) = <<>> THEN input.id
    ELSE Absent

LabelPart(ref) ==
    LET name == StripMdSuffix(ref[Len(ref)])
    IN  SubSeq(name, Len(toISODate(0)) + 2, Len(name))

\* C17: every derivation returns a reference of three or four segments, and
\* the source segment, the publisher segment and the label part of the file
\* name are not empty.
C17_DeriverTotal ==
    fn.op = "generateDocumentRef" =>
        /\ Len(fn.out) \in {3, 4}
        /\ \A i \in DOMAIN fn.out : fn.out[i] # <<>>
        /\ LabelPart(fn.out) # <<>>
        /\ Len(fn.out) = 4 <=> fn.arg.input.publisher \notin {Absent, <<>>}

\* C17 witness: a reference was derived for an input without id whose source,
\* publisher and label are all punctuation
C17_Witness ==
    /\ fn.op = "generateDocumentRef"
    /\ fn.arg.input.id = Absent
    /\ fn.arg.input.source = <<"!">>
    /\ fn.arg.input.publisher = <<"!">>
    /\ fn.arg.input.label = <<"!">>
    /\ fn.out[1] = Unknown /\ fn.out[2] = Unknown
    /\ LabelPart(fn.out) = Unknown

\* what sanitize is left with before it caps the length
Stripped(name) ==
    CollapseHyphens(StripTrailingHyphens(StripLeadingHyphens(
        ReplaceNonAlnumRuns(LowerAll(Trim(name)), FALSE))))

\* C18: the sanitized segment holds only lowercase letters, digits and single
\* hyphens, neither starts nor ends with a hyphen, is no longer than the cap,
\* and is the fallback exactly when stripping leaves nothing (otherwise it is
\* the start of what stripping leaves).
C18_SanitizationShape ==
    fn.op = "sanitize" =>
        /\ \A i \in DOMAIN fn.out : fn.out[i] \in LowerLetters \cup Digits \cup {"-"}
        /\ \A i \in DOMAIN fn.out :
              (i > 1 /\ fn.out[i] = "-") => fn.out[i - 1] # "-"
        /\ fn.out # <<>>
        /\ fn.out[1] # "-"
        /\ fn.out[Len(fn.out)] # "-"
        /\ Len(fn.out) <= fn.arg.maxLength
        /\ Stripped(fn.arg.name) = <<>> => fn.out = fn.arg.fallback
        /\ Stripped(fn.arg.name) # <<>> =>
              /\ Len(fn.out) <= Len(Stripped(fn.arg.name))
              /\ fn.out = SubSeq(Stripped(fn.arg.name), 1, Len(fn.out))

HasTag(tags, key, value) == \E i \in DOMAIN tags : tags[i] = <<key, value>>

HasKey(tags, key) == \E i \in DOMAIN tags : tags[i][1] = key

\* C19: reading back a document just saved succeeds; the content read is the
\* submitted content without its leading and trailing white space, nothing
\* before it and nothing after it; the tags read hold the id (when one was
\* given), the title (the label, or the caller's own title tag), created_at,
\* the source, the publisher (when one was given) and every tag of the caller.
C19_HeaderRoundTrip ==
    fn.op = "readSaved" =>
        /\ fn.out.ok
        /\ fn.out.content = Trim(fn.arg.content)
        /\ fn.arg.id # Absent => HasTag(fn.out.tags, KeyId, fn.arg.id)
        /\ \/ HasTag(fn.out.tags, KeyTitle, fn.arg.label)
           \/ /\ HasKey(fn.arg.tags, KeyTitle) /\ HasKey(fn.out.tags, KeyTitle)
        /\ HasTag(fn.out.tags, KeyCreatedAt,
                  toISOString(EffectiveDate(fn.arg, ClockNow)))
        /\ HasTag(fn.out.tags, KeySource, fn.arg.source)
        /\ fn.arg.publisher \notin {Absent, <<>>} =>
              HasTag(fn.out.tags, KeyPublisher, fn.arg.publisher)
        /\ \A i \in DOMAIN fn.arg.tags :
              HasTag(fn.out.tags, fn.arg.tags[i][1], fn.arg.tags[i][2])

\* the lines of a file
FileLines(file) == SplitLines(file.text)

\* the file begins with a line that is the delimiter
BeginsWithDelimiterLine(file) ==
    Len(FileLines(file)) >= 2 /\ FileLines(file)[1] = Delimiter

\* the first line after the opening one that is the delimiter, 0 if none
ClosingLine(file) ==
    LET closing == {j \in 2..Len(FileLines(file)) : FileLines(file)[j] = Delimiter}
    IN  IF closing = {} THEN 0 ELSE CHOOSE j \in closing : \A k \in closing : j <= k

\* what the lines between the two delimiter lines parse to
HeaderKind(file) ==
    YAMLparse(Join(SubSeq(FileLines(file), 2, ClosingLine(file) - 1))).kind

\* the file is missing, or has no opening delimiter line, or no closing one,
\* or a header that is a list, a scalar or null
Malformed(file) ==
    \/ ~file.exists
    \/ ~BeginsWithDelimiterLine(file)
    \/ ClosingLine(file) = 0
    \/ HeaderKind(file) \in {"list", "scalar", "null"}

\* C20: readRawContent of a missing file, of a file without opening or closing
\* delimiter line, or of a file whose header is a list, a scalar or null,
\* fails and returns neither tags nor content.
C20_ReadValidation ==
    (fn.op \in {"readSaved", "readFound"} /\ Malformed(fn.file)) => fn.out = NoRead

\* the call returned a schema (it did not throw)
SchemaResolved == fn.op = "returned" /\ ~fn.threw

\* C21 as stated: with a schema file on disk and a schema given by the caller,
\* the schema resolved is the one of the file and the file is unchanged.
C21_SchemaFilePrecedence ==
    (SchemaResolved /\ fn.before.exists /\ fn.arg # NoSchema) =>
        /\ fn.out = ParseSchema(fn.before.text)
        /\ fn.file = fn.before

\* C21 amended: a schema given by the caller is the schema resolved and
\* replaces the file's; the schema of the file is resolved, and the file left
\* unchanged, when the caller gives none.
C21_SchemaCallerPrecedence ==
    /\ (SchemaResolved /\ fn.arg # NoSchema) =>
          /\ fn.out = fn.arg
          /\ ParseSchema(fn.file.text) = fn.arg
    /\ (SchemaResolved /\ fn.arg = NoSchema /\ fn.before.exists) =>
          /\ fn.out = ParseSchema(fn.before.text)
          /\ fn.file = fn.before

\* C21 witness: a call with a schema of its own returned while the file held
\* another schema
C21_Witness ==
    /\ SchemaResolved /\ fn.entry = "initializeTagSchema"
    /\ fn.before.exists /\ fn.arg # NoSchema
    /\ ParseSchema(fn.before.text) # fn.arg
    /\ fn.out = fn.arg

\* the notifications of one hook among those of a step
HookCount(events, hook) ==
    Cardinality({i \in DOMAIN events : events[i].hook = hook})

\* worker w has already announced the start of the document it holds
StartedBefore(w) == wk[w].pc \in {"model", "write", "countsDone"}

\* worker w lets go, in the step just taken, of the entry it had dequeued
LetsGo(w) ==
    /\ last'.op # "crash" /\ last'.w = w
    /\ wk[w].ref # NoRef
    /\ attempted'[wk[w].ref] = attempted[wk[w].ref] + 1

\* C22: a worker is done with a dequeued reference only through exactly one
\* started notification followed by exactly one completed notification, both
\* naming the document's source, publisher and label, whether the processing
\* succeeded or failed; a completed notification of a failure carries the
\* error; no started notification is emitted twice for one entry.
C22_PerDocumentNotifications ==
    [][\A w \in Workers :
          LET events == last'.events
              doc == resolveDocumentMetadata(wk[w].ref, wk[w].raw.tags)
          IN  /\ LetsGo(w) =>
                    /\ HookCount(events, "onDocumentProcessingCompleted") = 1
                    /\ HookCount(events, "onDocumentProcessingStarted")
                          + (IF StartedBefore(w) THEN 1 ELSE 0) = 1
                    /\ events[Len(events)].hook = "onDocumentProcessingCompleted"
                    /\ \A i \in DOMAIN events :
                          /\ events[i].doc = doc
                          /\ ~events[i].success => events[i].error # ""
              /\ (last'.w = w /\ last' # last
                    /\ HookCount(events, "onDocumentProcessingStarted") > 0) =>
                    /\ wk[w].ref # NoRef
                    /\ ~StartedBefore(w)
                    /\ HookCount(events, "onDocumentProcessingStarted") = 1
                    /\ events[1].doc = doc
      ]_vars

RunHooks == {"onProcessingRunStarted", "onProcessingRunCompleted"}

RunEvents(events) == SelectSeq(events, LAMBDA e : e.hook \in RunHooks)

\* the run events of one step alternate, continuing from the run state the
\* step began in
Alternate(events, active) ==
    \A i \in DOMAIN events :
        events[i].hook = IF active = (i % 2 = 0)
                         THEN "onProcessingRunStarted"
                         ELSE "onProcessingRunCompleted"

Holding == {w \in Workers : wk[w].ref # NoRef}

\* C23: run-started and run-completed strictly alternate beginning with
\* run-started, and run-started is emitted only when documents were found
\* queued; a worker holds a document only while a run is active; a step
\* that emits run-completed ends with the queue empty, no worker holding a
\* document and nothing counted in flight, and the successful and failed
\* counts it reports add up to the number of references dequeued since the
\* matching run-started.
C23_RunNotifications ==
    [][LET evs == RunEvents(last'.events)
       IN  /\ Alternate(evs, run.runActive)
           /\ run'.runActive =
                 IF evs = <<>> THEN run.runActive
                 ELSE evs[Len(evs)].hook = "onProcessingRunStarted"
           /\ (Holding' # {} \/ run'.runInFlightCount > 0) => run'.runActive
           /\ (\E i \in DOMAIN evs : evs[i].hook = "onProcessingRunStarted")
                 => queueSize(queue') + run'.dequeued > 0
           /\ (\E i \in DOMAIN evs : evs[i].hook = "onProcessingRunCompleted")
                 => /\ queueSize(queue') = 0
                    /\ Holding' = {}
                    /\ run'.runInFlightCount = 0
                    /\ run'.runSuccessCount + run'.runFailureCount
                          = run'.dequeued
      ]_vars

\* a run over two documents, one of which failed, has just completed
C23_Witness ==
    /\ \E i \in DOMAIN last.events :
          last.events[i].hook = "onProcessingRunCompleted"
    /\ run.dequeued = 2
    /\ run.runSuccessCount = 1
    /\ run.runFailureCount = 1
    /\ concurrency = 2

HeldBy(r) == {w \in Workers : wk[w].ref = r}

\* the stages of one dequeued entry, in the order workerLoop goes through them
Stage(pc) ==
    CASE pc = "countsRun" -> 1
      [] pc = "read" -> 2
      [] pc = "countsDoc" -> 3
      [] pc = "model" -> 4
      [] pc = "write" -> 5
      [] pc = "countsDone" -> 6
      [] OTHER -> 0

RawOnly(r) == raw[r] # NoFile /\ processed[r] = NoFile

\* r failed, is raw-only, and is neither queued nor held by a worker
Parked(r) ==
    /\ r \in failed
    /\ RawOnly(r)
    /\ InQueue(r) = 0
    /\ HeldBy(r) = {}

EatAdded(r) == last'.op = "eat" /\ last'.res = "added" /\ last'.ref = r

\* C24: within one process lifetime a reference enters the queue only by a
\* successful eat or by the reconciliation of createGreptor, never by a
\* worker; a worker goes through the stages of a dequeued entry strictly
\* forwards (one raw read, at most one model invocation, at most one
\* processed write) until it lets the entry go; and a failed reference that
\* is raw-only and no longer pending stays so until an eat (with overwrite,
\* its raw record exists) enqueues it again or the process dies.
C24_NoRetry ==
    [][last'.op # "crash" =>
         /\ \A r \in AllRefs :
               /\ InQueue(r)' > InQueue(r) =>
                     \/ EatAdded(r)
                     \/ last'.op = "enqueueUnprocessedDocuments" /\ enqueued[r] = 0
               /\ modelCalls'[r] + InQueue(r)' <= enqueued'[r]
               /\ processed'[r] # processed[r] =>
                     \E w \in HeldBy(r) :
                         /\ last'.w = w
                         /\ wk[w].pc = "write"
                         /\ wk'[w].pc = "countsDone"
               /\ Parked(r) =>
                     /\ RawOnly(r)'
                     /\ HeldBy(r)' = {}
                     /\ Parked(r)' \/ EatAdded(r)
         /\ \A w \in Workers :
               (wk[w].ref # NoRef /\ wk'[w] # wk[w]) =>
                     \/ /\ last'.w = w
                        /\ attempted'[wk[w].ref] = attempted[wk[w].ref] + 1
                        /\ Stage(wk'[w].pc) <= 2
                     \/ /\ wk'[w].ref = wk[w].ref
                        /\ Stage(wk'[w].pc) > Stage(wk[w].pc)
      ]_vars

\* a reference failed, the workers were stopped and started again, the queue
\* was drained, and the reference is still raw-only and not pending
C24_Witness ==
    \E r \in AllRefs :
        /\ Parked(r)
        /\ attempted[r] = 1
        /\ last.op = "start"
        /\ stopCount > 0

\* the workers that take a reference off the queue in this step
Takers ==
    {w \in Workers : wk'[w].ref # NoRef /\ (wk[w].ref = NoRef \/ LetsGo(w))}

\* with one worker loop: the reference it holds, then the queue
Pend == (IF wk[1].ref # NoRef THEN <<wk[1].ref>> ELSE <<>>) \o queue

DocHooks == {"onDocumentProcessingStarted", "onDocumentProcessingCompleted"}

\* C25: the queue is first-in first-out for any worker count: a successful
\* eat appends its reference, reconciliation fills the empty queue in sorted
\* order, and the workers that dequeue in a step take the head entries in
\* the order their loops run.  With concurrency 1 the reference in flight
\* followed by the queue only ever loses its first entry or gains a last
\* one, and document notifications are emitted only for that first entry,
\* so documents are started and completed in enqueue order.
C25_Fifo ==
    [][last'.op # "crash" =>
         LET k == Cardinality(Takers)
         IN  /\ k = 0 =>
                   \/ queue' = queue
                   \/ \E r \in AllRefs : EatAdded(r) /\ queue' = Append(queue, r)
                   \/ /\ last'.op = "enqueueUnprocessedDocuments"
                      /\ queue = <<>>
                      /\ queue' = getUnprocessedContents(raw, processed)
             /\ k > 0 =>
                   /\ k <= Len(queue)
                   /\ queue' = SubSeq(queue, k + 1, Len(queue))
                   /\ \A w \in Takers :
                         wk'[w].ref = queue[Cardinality({v \in Takers : v <= w})]
             /\ concurrency = 1 =>
                   /\ \A w \in Workers : w # 1 => wk'[w].ref = NoRef
                   /\ \/ Pend' = Pend
                      \/ Pend # <<>> /\ Pend' = Tail(Pend)
                      \/ \E r \in AllRefs : Pend' = Append(Pend, r)
                      \/ Pend = <<>> /\ last'.op = "enqueueUnprocessedDocuments"
                   /\ (/\ last'.w \in Workers
                       /\ \E i \in DOMAIN last'.events :
                             last'.events[i].hook \in DocHooks) =>
                         /\ Pend # <<>>
                         /\ last'.ref = Head(Pend)
                         /\ wk[1].ref = Head(Pend)
      ]_vars

\* one worker loop has finished two different references, one after the
\* other, and the completion of the second was just reported
C25_Witness ==
    /\ concurrency = 1
    /\ \E r1, r2 \in AllRefs :
          /\ r1 # r2
          /\ attempted[r1] = 1
          /\ attempted[r2] = 1
          /\ last.ref = r2
          /\ CompletionReported(last.events)

\* worker loops that were started and have neither returned nor been lost
Running == {w \in Spawned : wk[w].pc \notin {"exited", "crashed"}}

\* C26: the worker count is max(1, configured workers), so at least 1;
\* while the instance holds a worker handle exactly that many loops were
\* started; each loop holds at most one reference (its docRef) and only a
\* running loop holds one, so the number of documents in flight is between
\* 0 and the worker count.
C26_BoundedConcurrency ==
    /\ concurrency >= 1
    /\ workerHandle => Cardinality(Spawned) = concurrency
    /\ Cardinality(Spawned) \in {0, concurrency}
    /\ Holding \subseteq Running
    /\ Cardinality(Holding) <= concurrency
    /\ \A w \in Workers : wk[w].ref \in AllRefs \cup {NoRef}

\* two loops were started and each holds a reference
C26_Witness ==
    /\ concurrency = 2
    /\ workerHandle
    /\ Cardinality(Holding) = 2

\* generateText resolved with the empty string for the docRef of worker w
EmptyText(w) ==
    /\ wk[w].pc = "model"
    /\ last'.op = "model"
    /\ last'.w = w
    /\ last'.res = "empty"

\* C27: when the model returns the empty string for the reference a worker
\* holds, that step writes no processed record, ends the attempt as failed
\* with exactly one completion notification (success false, an error, the
\* document's identity), and the loop goes on: it takes the head of the
\* queue if there is one and stop was not signalled, and otherwise waits or
\* exits on the stop signal; its promise is not rejected.
C27_EmptyOutputFails ==
    [][\A w \in Workers :
          EmptyText(w) =>
             LET ref == wk[w].ref
                 events == last'.events
             IN  /\ processed' = processed
                 /\ attempted'[ref] = attempted[ref] + 1
                 /\ ref \in failed'
                 /\ Len(events) = 1
                 /\ events[1] =
                       Event("onDocumentProcessingCompleted",
                             resolveDocumentMetadata(ref, wk[w].raw.tags),
                             FALSE, "empty")
                 /\ wk'[w].pc # "crashed"
                 /\ IF queue # <<>> /\ ~stopping
                    THEN /\ wk'[w].ref = Head(queue)
                         /\ queue' = Tail(queue)
                         /\ wk'[w].pc \in {"countsRun", "read"}
                    ELSE /\ wk'[w].ref = NoRef
                         /\ queue' = queue
                         /\ wk'[w].pc \in {"countsEnd", "sleep", "exited"}
      ]_vars

\* the model returned the empty string for a reference that stays raw-only,
\* and the worker went on to the next reference in the queue
C27_Witness ==
    /\ last.op = "model"
    /\ last.res = "empty"
    /\ RawOnly(last.ref)
    /\ last.ref \in failed
    /\ wk[last.w].ref \notin {NoRef, last.ref}

\* the identity read off the reference: its first segment, its second
\* segment when it has more than three, its file name without ".md"
FromPath(ref) ==
    LET name == ref[Len(ref)]
    IN  [source |-> ref[1],
         publisher |-> IF Len(ref) > 3 THEN ref[2] ELSE Absent,
         label |-> SubSeq(name, 1, Len(name) - 3)]

NonBlankString(value) ==
    /\ value \notin {Absent, NotAString}
    /\ \E i \in DOMAIN value : value[i] \notin Whitespace

Preferred(tag, fromPath) == IF NonBlankString(tag) THEN Trim(tag) ELSE fromPath

\* C28: when readRawContent failed for the dequeued reference the model is
\* never invoked and no processed record is written in that turn, the turn
\* ends at the per-document catch (started, then completed with success
\* false) unless the count query rejects first, and every notification
\* carries the identity read off the reference.  When the raw record was
\* read, each of source, publisher and label is the trimmed tag (source,
\* publisher, title) if that tag is a non-blank string and the value read
\* off the reference otherwise.
C28_ReadFailureReportedFromPath ==
    LET path == FromPath(fn.ref)
        tags == fn.raw.tags
    IN  /\ fn.ref[Len(fn.ref)] =
              path.label \o <<".", "m", "d">>
        /\ (fn.op # "read" /\ ~fn.raw.ok) =>
              /\ fn.modelCalls = 0
              /\ ~fn.wrote
              /\ fn.op \in {"countsDoc", "rejected", "failed"}
              /\ fn.op = "failed" =>
                    fn.events =
                      <<Event("onDocumentProcessingStarted", path, TRUE, ""),
                        Event("onDocumentProcessingCompleted", path, FALSE,
                              "read")>>
              /\ fn.op # "failed" => fn.events = <<>>
        /\ fn.raw.ok =>
              \A i \in DOMAIN fn.events :
                  fn.events[i].doc =
                    [source |-> Preferred(tags.source, path.source),
                     publisher |-> Preferred(tags.publisher, path.publisher),
                     label |-> Preferred(tags.title, path.label)]

\* the raw file of a reference with a publisher segment could not be read
\* and the failure was reported
C28_Witness ==
    /\ fn.op = "failed"
    /\ ~fn.raw.ok
    /\ Len(fn.ref) > 3
    /\ fn.file = Truncated
    /\ Len(fn.events) = 2

\* C29: every reference that has a processed record has a raw record, and a
\* processed record changes only at the write of a worker that holds the
\* reference and has read its raw record successfully (a process death
\* during that write may leave the record truncated).
C29_ProcessedImpliesRaw ==
    [][\A r \in AllRefs :
          /\ processed[r].exists => raw[r].exists
          /\ processed'[r].exists => raw'[r].exists
          /\ processed'[r] # processed[r] =>
                \E w \in HeldBy(r) :
                    /\ wk[w].pc = "write"
                    /\ wk[w].raw.ok
                    /\ raw[r].exists
                    /\ processed'[r] \in {Rendered(w), Truncated}
      ]_vars

\* a worker has just written the processed record of a reference
C29_Witness ==
    /\ last.op = "write"
    /\ last.res = "ok"
    /\ processed[last.ref].intact
    /\ raw[last.ref].exists

\* C30: a raw record changes only at the write of an eat call that maps to
\* its reference, and when the record already exists only if that call
\* set overwrite; every other step (workers, reconciliation, start, stop,
\* duplicate and rejected eats) leaves every raw record as it is.  A
\* process death may truncate only a record such a call was writing.
C30_RawImmutable ==
    [][\A r \in AllRefs :
          raw'[r] # raw[r] =>
             \E c \in EatSlots :
                 /\ eats[c].pc = "write"
                 /\ eats[c].ref = r
                 /\ raw[r].exists => eats[c].input.overwrite
                 /\ raw'[r] \in {buildRawFileContent(eats[c].input), Truncated}
      ]_vars

\* the processed files that can be rendered from a raw file written for r
RendersFor(r) == {RenderOf(i) : i \in {j \in EatInputs : RefOf(j) = r}}

ProcessedRefs == {r \in AllRefs : processed[r].exists}

\* worker w gets its processed file written in this step
Writes(w) == wk[w].pc = "write" /\ wk'[w].pc = "countsDone"

C32_ConcurrentIngestion ==
    [][\A r \in AllRefs :
          EatAdded(r) =>
             /\ r \notin eaten
             /\ enqueued'[r] = enqueued[r] + 1
      ]_vars

\* nothing is pending: the queue is empty, no worker holds a reference and
\* no eat call is in flight
Quiescent ==
    /\ queue = <<>>
    /\ Holding = {}
    /\ \A c \in EatSlots : eats[c].pc = "idle"

\* the processed file rendered from the raw file as it is now
RenderOfRaw(r) ==
    LET rd == readRawContent(raw[r], FALSE)
    IN  renderProcessedDocument(rd.tags,
            ModelText(createProcessingPrompt(rd.content, Absent)))

\* C33: whenever nothing is pending, the processed record of every
\* reference that was attempted in this process lifetime and none of whose
\* attempts failed (so the last one succeeded) is the render of the raw
\* record as it is now.
C33_NeverStaleAtQuiescence ==
    Quiescent =>
        \A r \in AllRefs :
            (attempted[r] >= 1 /\ r \notin failed) =>
                processed[r] = RenderOfRaw(r)

\* C34: once the instance is ready, every reference whose raw record an eat
\* call with overwrite replaced while a processed record existed, and which
\* no worker has read since, is still queued or held by a worker (or an
\* attempt of this process lifetime on it failed), also after a crash and
\* a restart.
C34_OverwriteSurvivesRestart ==
    gstate = "ready" =>
        \A r \in overwritten :
            \/ InQueue(r) > 0
            \/ HeldBy(r) # {}
            \/ r \in failed

\* no stop() call is waiting for the worker loops: start() returns at once,
\* so every start() and stop() call issued so far has returned
AllReturned == gstate = "ready" /\ stops = 0

\* C35: never more than max(1, workers) loops run at once; once every
\* start() and stop() call has returned, the pool is started and not told
\* to stop if the call issued most recently was start(), and no loop runs
\* if it was stop() (and no loop was lost to a rejection).
C35_StartStopInterleaving ==
    /\ Cardinality(Running) <= concurrency
    /\ (AllReturned /\ issued = "start") => (workerHandle /\ ~stopping)
    /\ (AllReturned /\ issued = "stop" /\ \A w \in Workers : wk[w].pc # "crashed")
           => Running = {}

\* the first n entries of q, the ones n worker loops starting together take
Taken(q, n) == SubSeq(q, 1, IF n < Len(q) THEN n ELSE Len(q))

ProcessedAfterLaterStart ==
    \A r \in AllRefs :
        (crashCount = 0 /\ stopCount >= 1 /\ issued = "start" /\ workerHandle
            /\ ~stopping /\ InQueue(r) >= 1)
          ~> (\/ InQueue(r) = 0
              \/ stopping
              \/ gstate = "down"
              \/ \E w \in Workers : wk[w].pc = "crashed")

\* worker w's attempt has written its processed record: only a successful
\* saveProcessedContent leads to the count query before the notification
Wrote(w) == wk[w].pc = "countsDone"

\* C37: a step of worker w that emits onDocumentProcessingCompleted reports
\* success: true exactly when the attempt it ends wrote the processed
\* record.
C37_CompletionTellsTruth ==
    [][\A w \in Workers :
          (last'.w = w /\ wk[w].ref # NoRef /\ wk'[w].ref # wk[w].ref) =>
              \A i \in DOMAIN last'.events :
                  last'.events[i].hook = "onDocumentProcessingCompleted" =>
                      (last'.events[i].success <=> Wrote(w))
      ]_vars

\* no worker loop has been lost to a rejected await
NoLoss == \A w \in Workers : wk[w].pc # "crashed"

\* the step just taken is a worker loop emitting the run notification hook
Emits(hook) ==
    /\ last'.w \in Workers
    /\ last'.op \in {"countsRun", "countsEnd"}
    /\ HookCount(last'.events, hook) > 0

\* C38: activeWorkers stays between 0 and the worker count and, while no
\* loop has been lost, equals the number of loops holding a reference;
\* onProcessingStarted is emitted by a loop that dequeued while
\* activeWorkers was 0 and onProcessingCompleted by a loop that found
\* activeWorkers 0 and the queue empty; and, while no loop has been lost,
\* onProcessingStarted is not emitted again before an onProcessingCompleted
\* has followed the previous one.
C38_BusyPeriodAccounting ==
    [][/\ activeWorkers' >= 0 /\ activeWorkers' <= concurrency'
       /\ NoLoss' => activeWorkers' = Cardinality(Holding')
       /\ Emits("onProcessingStarted") =>
             /\ wk[last'.w].pc = "countsRun"
             /\ NoLoss => ~runOpen
       /\ Emits("onProcessingCompleted") => wk[last'.w].pc = "countsEnd"
      ]_vars

====
